---- MODULE Spec2Model ----
(***************************************************************************)
(* kubiq: the cluster lister (src/src/k8s/mod.rs).  list_async resolves    *)
(* the resource through the discovery cache, lists it page by page, every  *)
(* request going through run_with_retry, and recovers once from a rejected *)
(* selector and once from a stale resource resolution.                     *)
(*                                                                         *)
(* Rust strings whose characters the code inspects (error messages,        *)
(* resource names) are sequences of one-character strings.  Option<T> is   *)
(* None == <<>> or Some(x) == <<x>>.                                        *)
(***************************************************************************)
EXTENDS Integers, Sequences, FiniteSets, TLC

VARIABLES
    pc,             \* position of list_async: the await it is suspended on
    resource,       \* the resource argument, shadowed by its normalised form
    options,        \* the caller's ListQueryOptions
    now,            \* Instant::now()
    cache,          \* DISCOVERY_CACHE, the entry of this call's key
    phase,          \* 1: first list_with_selector_fallback, 2: after the refresh
    fallback,       \* list_with_selector_fallback is in its selector-less list_pages
    api_resource,   \* the resolved ApiResource
    diagnostics,    \* diagnostics of the running list_with_selector_fallback
    all_items, continue_token, page_count, params,   \* locals of list_pages
    attempt,        \* local of run_with_retry
    result,         \* what list_async returned
    rr,             \* history of the running run_with_retry call
    sent,           \* history: ListParams of each page request of this list_pages
    pages,          \* history: pages received by this list_pages
    calls,          \* history: the calls list_async has made
    source, had_selectors, class, mapped,  \* inputs and results of the classifiers
    dcache,         \* DISCOVERY_CACHE as a whole: key -> entry
    lock,           \* the RwLock around DISCOVERY_CACHE: its readers and its writer
    tasks,          \* the tasks that call list_async concurrently: position and locals
    latest,         \* history: per key, the last cache_insert not invalidated since
    last_call,      \* history: the last cache call, its arguments and what it returned
    predicates,     \* plan_pushdown's argument
    plan,           \* the PushdownPlan it returned
    objects,        \* the engine's input objects
    query,          \* the engine's QueryPlan
    output,         \* what evaluate / sort_objects / aggregate returned
    root,           \* the JSON value given to flatten_json_to_fields
    fields,         \* the flattened fields
    rebuilt,        \* what reconstruct_nested_from_fields made of them
    seg,            \* the string given to encode_segment
    encoded,        \* what encode_segment made of it
    decoded,        \* what decode_segment made of that
    raw,            \* the kube DynamicObject given to dynamic_to_engine_object
    materialised,   \* the EngineObject it returned
    words,          \* the query tokens handed to the parser
    parsed,        \* what parse_query or parse_query_args returned
    ast,            \* the predicates of the parsed query
    cluster,        \* the objects the API server holds for the resource
    list_result,    \* what k8s::list returned to run
    rows            \* the objects run kept after engine::evaluate

listerVars == <<pc, resource, options, now, cache, phase, fallback, api_resource,
                diagnostics, all_items, continue_token, page_count, params, attempt,
                result, rr, sent, pages, calls, source, had_selectors, class, mapped>>

cacheVars == <<dcache, lock, tasks, latest, last_call>>
plannerVars == <<predicates, plan>>
engineVars == <<objects, query, output>>
pathVars == <<root, fields, rebuilt>>
codecVars == <<seg, encoded, decoded>>
materialVars == <<raw, materialised>>
parserVars == <<words, parsed>>
runVars == <<ast, cluster, list_result, rows>>

vars == <<listerVars, cacheVars, plannerVars, engineVars, pathVars, codecVars, materialVars, parserVars, runVars>>

----------------------------------------------------------------------------
(* Bounds of the model *)

\* stands for MAX_LIST_PAGES = 10_000 (k8s/mod.rs:29): the page cap, scaled
MAX_LIST_PAGES == 3
\* stands for DISCOVERY_CACHE_TTL = 60 s (k8s/mod.rs:30), in clock ticks
DISCOVERY_CACHE_TTL == 1
\* the clock stops advancing here
MaxNow == 1

(* Program constants *)
LIST_PAGE_SIZE == 500
RETRY_MAX_ATTEMPTS == 3
RETRY_INITIAL_BACKOFF == 100
RETRY_MAX_BACKOFF == 400
REQUEST_TIMEOUT == 5000

DEFAULT_RETRY_POLICY ==
    [max_attempts |-> RETRY_MAX_ATTEMPTS, initial_backoff |-> RETRY_INITIAL_BACKOFF,
     max_backoff |-> RETRY_MAX_BACKOFF, request_timeout |-> REQUEST_TIMEOUT]

None == <<>>
Some(x) == <<x>>
Min(a, b) == IF a <= b THEN a ELSE b

----------------------------------------------------------------------------
(* Strings *)

UPPER == <<"A", "B", "C", "D", "E", "F", "G", "H", "I", "J", "K", "L", "M", "N", "O", "P", "Q", "R", "S", "T", "U", "V", "W", "X", "Y", "Z">>
LOWER == <<"a", "b", "c", "d", "e", "f", "g", "h", "i", "j", "k", "l", "m", "n", "o", "p", "q", "r", "s", "t", "u", "v", "w", "x", "y", "z">>
Whitespace == {" ", "\t", "\n"}

ToLowerChar(c) ==
    IF \E i \in 1..Len(UPPER) : UPPER[i] = c
    THEN LOWER[CHOOSE i \in 1..Len(UPPER) : UPPER[i] = c]
    ELSE c

\* str::to_ascii_lowercase
ToAsciiLowercase(s) == [i \in 1..Len(s) |-> ToLowerChar(s[i])]

\* str::contains(&str)
Contains(s, m) ==
    \E i \in 0..(Len(s) - Len(m)) : \A j \in 1..Len(m) : s[i + j] = m[j]

\* str::trim
Trim(s) ==
    LET keep == {i \in 1..Len(s) : s[i] \notin Whitespace}
    IN  IF keep = {} THEN <<>>
        ELSE LET lo == CHOOSE i \in keep : \A j \in keep : i <= j
                 hi == CHOOSE i \in keep : \A j \in keep : j <= i
             IN  SubSeq(s, lo, hi)

normalize_resource(r) == ToAsciiLowercase(Trim(r))

\* str::eq_ignore_ascii_case
EqIgnoreAsciiCase(a, b) == ToAsciiLowercase(a) = ToAsciiLowercase(b)

SELECTOR_MARKERS == <<
    <<"f", "i", "e", "l", "d", " ", "s", "e", "l", "e", "c", "t", "o", "r">>,
    <<"l", "a", "b", "e", "l", " ", "s", "e", "l", "e", "c", "t", "o", "r">>,
    <<"n", "o", "t", " ", "a", " ", "k", "n", "o", "w", "n", " ", "f", "i", "e", "l", "d", " ", "s", "e", "l", "e", "c", "t", "o", "r">>,
    <<"f", "i", "e", "l", "d", " ", "l", "a", "b", "e", "l", " ", "n", "o", "t", " ", "s", "u", "p", "p", "o", "r", "t", "e", "d">> >>

----------------------------------------------------------------------------
(* kube::Error and K8sError *)

\* kube::Error: Api carries an ErrorResponse; the other variants carry nothing
\* the code reads.  SerdeError stands for every variant the matches leave to `_`.
ApiError(code, reason, message) ==
    [variant |-> "Api", code |-> code, reason |-> reason, message |-> message]
TransportError(variant) ==
    [variant |-> variant, code |-> 0, reason |-> <<>>, message |-> <<>>]

\* variant: every client error is retried as well
is_retryable_kube_error_ClientErrors(src) ==
    CASE src.variant \in {"Service", "HyperError"} -> TRUE
      [] src.variant = "Api" -> src.code >= 400
      [] OTHER -> FALSE

is_retryable_kube_error(src) ==
    CASE src.variant \in {"Service", "HyperError"} -> TRUE
      [] src.variant = "Api" -> src.code = 429 \/ src.code >= 500
      [] OTHER -> FALSE

is_selector_rejection(error) ==
    IF error.code # 400 THEN FALSE
    ELSE LET reason == ToAsciiLowercase(error.reason)
             message == ToAsciiLowercase(error.message)
         IN  \E k \in 1..Len(SELECTOR_MARKERS) :
                 \/ Contains(reason, SELECTOR_MARKERS[k])
                 \/ Contains(message, SELECTOR_MARKERS[k])

is_resource_resolution_stale(error) == error.code \in {404, 410}

\* variant: a selector rejection is claimed whether or not selectors were sent
classify_list_error_IgnoresHadSelectors(src, had) ==
    IF src.variant = "Api" /\ is_selector_rejection(src) THEN "SelectorRejected"
    ELSE IF src.variant = "Api" /\ is_resource_resolution_stale(src)
    THEN "ResourceResolutionStale"
    ELSE IF src.variant \in {"Service", "HyperError"} THEN "ApiUnreachable"
    ELSE "Other"

classify_list_error(src, had) ==
    IF src.variant = "Api" /\ had /\ is_selector_rejection(src) THEN "SelectorRejected"
    ELSE IF src.variant = "Api" /\ is_resource_resolution_stale(src)
    THEN "ResourceResolutionStale"
    ELSE IF src.variant \in {"Service", "HyperError"} THEN "ApiUnreachable"
    ELSE "Other"

map_list_error(res, had, src) ==
    CASE classify_list_error(src, had) = "SelectorRejected" ->
            [kind |-> "SelectorRejected", resource |-> res, source |-> src]
      [] classify_list_error(src, had) = "ResourceResolutionStale" ->
            [kind |-> "ResourceResolutionStale", resource |-> res, source |-> src]
      [] classify_list_error(src, had) = "ApiUnreachable" ->
            [kind |-> "ApiUnreachable", stage |-> "list", source |-> src]
      [] OTHER ->
            [kind |-> "ListFailed", resource |-> res, source |-> src]

map_discovery_error(src) ==
    IF classify_list_error(src, FALSE) = "ApiUnreachable"
    THEN [kind |-> "ApiUnreachable", stage |-> "discovery", source |-> src]
    ELSE [kind |-> "DiscoveryRun", source |-> src]

\* variant: the ApiUnreachable arm is missing
retry_error_kind_NoUnreachable(error) ==
    IF error.kind \in {"RequestTimeout", "SelectorRejected",
                       "ResourceResolutionStale", "ListFailed", "DiscoveryRun"}
    THEN error.kind
    ELSE "Other"

retry_error_kind(error) ==
    IF error.kind \in {"ApiUnreachable", "RequestTimeout", "SelectorRejected",
                       "ResourceResolutionStale", "ListFailed", "DiscoveryRun"}
    THEN error.kind
    ELSE "Other"

should_retry_without_selectors(error) == error.kind = "SelectorRejected"

\* variant: an exhausted retry is not looked into
should_retry_with_fresh_discovery_DirectOnly(error) ==
    error.kind = "ResourceResolutionStale"

should_retry_with_fresh_discovery(error) ==
    \/ error.kind = "ResourceResolutionStale"
    \/ error.kind = "RetryExhausted" /\ error.final_error = "ResourceResolutionStale"

has_selectors(opts) == opts.field_selector # None \/ opts.label_selector # None

----------------------------------------------------------------------------
(* run_with_retry *)

retry_backoff_for_attempt(policy, n) ==
    LET shift == Min(IF n >= 1 THEN n - 1 ELSE 0, 8)
    IN  Min(policy.initial_backoff * (2 ^ shift), policy.max_backoff)

RetryExhausted(stage, n, reason, final, src) ==
    [kind |-> "RetryExhausted", stage |-> stage, attempts |-> n, reason |-> reason,
     final_error |-> final, source |-> src]

\* the map_error closure each call site passes to run_with_retry
MapError(stage, res, had, src) ==
    IF stage = "list" THEN map_list_error(res, had, src) ELSE map_discovery_error(src)

\* variant: one attempt too many
CanRetry_OffByOne(policy, n) == n <= policy.max_attempts

\* `attempt < policy.max_attempts`: another attempt is allowed
CanRetry(policy, n) == n < policy.max_attempts

\* variant: a first-attempt failure is wrapped as well
AfterRetries_Always(n) == n >= 1

\* `attempt > 1`: the failure comes after at least one retry
AfterRetries(n) == n > 1

\* One turn of run_with_retry's loop on the outcome of `timeout(operation())`:
\* outcome.tag is "ok" (Ok(Ok(value))), "err" (Ok(Err(source))) or "timeout"
\* (Err(elapsed)).  Yields "retry" (sleep, attempt += 1, continue) or the Result
\* run_with_retry returns.
RetryTurn(stage, policy, n, outcome, res, had) ==
    CASE outcome.tag = "ok" -> [tag |-> "ok", value |-> outcome.value]
      [] outcome.tag = "err" ->
            LET retryable == is_retryable_kube_error(outcome.source)
                m == MapError(stage, res, had, outcome.source)
            IN  IF retryable /\ CanRetry(policy, n)
                THEN [tag |-> "retry", sleep |-> retry_backoff_for_attempt(policy, n)]
                ELSE IF retryable
                THEN [tag |-> "err", error |->
                        RetryExhausted(stage, n, "RetryCapReached", retry_error_kind(m), m)]
                ELSE IF AfterRetries(n)
                THEN [tag |-> "err", error |->
                        RetryExhausted(stage, n, "NonRetryable", retry_error_kind(m), m)]
                ELSE [tag |-> "err", error |-> m]
      [] OTHER ->
            LET timed_out == [kind |-> "RequestTimeout", stage |-> stage,
                              timeout_ms |-> policy.request_timeout]
            IN  IF CanRetry(policy, n)
                THEN [tag |-> "retry", sleep |-> retry_backoff_for_attempt(policy, n)]
                ELSE [tag |-> "err", error |->
                        RetryExhausted(stage, n, "RetryCapReached", "RequestTimeout", timed_out)]

----------------------------------------------------------------------------
(* list_pages helpers *)

\* variant: the cap is hit one page early
ensure_page_limit_OffByOne(res, count) ==
    IF count >= MAX_LIST_PAGES
    THEN [tag |-> "err", error |->
            [kind |-> "PaginationExceeded", resource |-> res, max_pages |-> MAX_LIST_PAGES]]
    ELSE [tag |-> "ok"]

ensure_page_limit(res, count) ==
    IF count > MAX_LIST_PAGES
    THEN [tag |-> "err", error |->
            [kind |-> "PaginationExceeded", resource |-> res, max_pages |-> MAX_LIST_PAGES]]
    ELSE [tag |-> "ok"]

\* variant: no non-progress guard
next_continue_token_NoGuard(res, current_token, raw_next_token) ==
    LET next_token == IF raw_next_token # None /\ raw_next_token[1] # ""
                      THEN raw_next_token ELSE None
    IN  [tag |-> "ok", value |-> next_token]

\* current_token and raw_next_token are Options; the empty token is ""
next_continue_token(res, current_token, raw_next_token) ==
    LET next_token == IF raw_next_token # None /\ raw_next_token[1] # ""
                      THEN raw_next_token ELSE None
    IN  IF next_token = None THEN [tag |-> "ok", value |-> None]
        ELSE IF current_token = next_token
        THEN [tag |-> "err", error |->
                [kind |-> "PaginationStuck", resource |-> res, token |-> next_token[1]]]
        ELSE [tag |-> "ok", value |-> next_token]

\* variant: the continue token is not passed on
build_list_params_NoToken(limit, token, opts) ==
    [limit |-> Some(limit), continue_token |-> None,
     field_selector |-> opts.field_selector, label_selector |-> opts.label_selector]

build_list_params(limit, token, opts) ==
    [limit |-> Some(limit), continue_token |-> token,
     field_selector |-> opts.field_selector, label_selector |-> opts.label_selector]

DefaultOptions == [field_selector |-> None, label_selector |-> None]

SelectorFallback(attempted) ==
    [kind |-> "SelectorFallback", reason |-> "ApiRejectedBadRequest", attempted |-> attempted]

----------------------------------------------------------------------------
(* Discovery cache and resource resolution *)

\* variant: an expired entry is missed but stays in the cache
cache_lookup_KeepsExpired(c, t) ==
    IF c # None /\ t <= c[1].expires_at THEN [value |-> Some(c[1].api_resource), cache |-> c]
    ELSE [value |-> None, cache |-> c]

\* cache_lookup at time t: the value returned and the cache left behind
cache_lookup(c, t) ==
    IF c = None THEN [value |-> None, cache |-> c]
    ELSE IF t <= c[1].expires_at THEN [value |-> Some(c[1].api_resource), cache |-> c]
    ELSE [value |-> None, cache |-> IF t > c[1].expires_at THEN None ELSE c]

cache_insert(api, ttl, t) == Some([api_resource |-> api, expires_at |-> t + ttl])

invalidate_discovery_cache(c) == None

\* the search of resolve_api_resource over the discovered resources, in order
RECURSIVE FindResource(_, _)
FindResource(discovered, res) ==
    IF discovered = <<>> THEN None
    ELSE IF EqIgnoreAsciiCase(Head(discovered).plural, res)
    THEN Some([group |-> Head(discovered).group, version |-> Head(discovered).version,
               kind |-> Head(discovered).kind, plural |-> Head(discovered).plural])
    ELSE FindResource(Tail(discovered), res)

----------------------------------------------------------------------------
(* JSON values and maps *)

\* serde_json::Value: t is the variant, v its payload (strings are sequences of
\* characters, arrays sequences of values, objects functions from keys to values)
Json(t, v) == [t |-> t, v |-> v]

\* str::split(sep): the parts between the separators (one part when there is none)
RECURSIVE Split(_, _)
Split(s, sep) ==
    IF \A i \in 1..Len(s) : s[i] # sep THEN <<s>>
    ELSE LET at == CHOOSE i \in 1..Len(s) : s[i] = sep /\ \A j \in 1..(i - 1) : s[j] # sep
         IN  <<SubSeq(s, 1, at - 1)>> \o Split(SubSeq(s, at + 1, Len(s)), sep)

\* [String]::join(sep)
RECURSIVE Join(_, _)
Join(parts, sep) ==
    IF parts = <<>> THEN <<>>
    ELSE IF Len(parts) = 1 THEN parts[1]
    ELSE parts[1] \o sep \o Join(Tail(parts), sep)

\* HashMap and BTreeMap: a function from the keys present to their values
EmptyMap == <<>>
MapGet(m, k) == IF k \in DOMAIN m THEN Some(m[k]) ELSE None
MapInsert(m, k, e) == [x \in DOMAIN m \cup {k} |-> IF x = k THEN e ELSE m[x]]
MapRemove(m, k) == [x \in DOMAIN m \ {k} |-> m[x]]
\* the slot of key k after a function left entry there
MapSet(m, k, entry) == IF entry = None THEN MapRemove(m, k) ELSE MapInsert(m, k, entry[1])

DIGITS == <<"0", "1", "2", "3", "4", "5", "6", "7", "8", "9">>

\* usize::to_string
RECURSIVE to_string(_)
to_string(n) == IF n < 10 THEN <<DIGITS[n + 1]>> ELSE to_string(n \div 10) \o <<DIGITS[(n % 10) + 1]>>

----------------------------------------------------------------------------
(* Path codec (src/src/path/mod.rs) and DynamicObject (src/src/dynamic_object.rs) *)

\* Result
Ok(value) == [ok |-> TRUE, v |-> value]
Err(error) == [ok |-> FALSE, v |-> error]

\* the characters of the model in the order of their code points
CHARS ==
    <<"\t", "\n", " ", "!", "%", ",", "-", ".", "/",
      "0", "1", "2", "3", "4", "5", "6", "7", "8", "9", "=">> \o UPPER \o <<"_">> \o LOWER

\* Ord::cmp on integers, and Ordering::reverse
Cmp(a, b) == IF a < b THEN "Less" ELSE IF a > b THEN "Greater" ELSE "Equal"
Reverse(ordering) ==
    IF ordering = "Less" THEN "Greater" ELSE IF ordering = "Greater" THEN "Less" ELSE "Equal"

\* Ord::cmp on String: lexicographic on the bytes
RECURSIVE StrCmp(_, _)
StrCmp(a, b) ==
    IF a = <<>> \/ b = <<>> THEN Cmp(Len(a), Len(b))
    ELSE IF a[1] # b[1]
    THEN Cmp(CHOOSE i \in 1..Len(CHARS) : CHARS[i] = a[1],
             CHOOSE i \in 1..Len(CHARS) : CHARS[i] = b[1])
    ELSE StrCmp(Tail(a), Tail(b))

\* str::replace(char, &str)
RECURSIVE Replace(_, _, _)
Replace(s, c, with) ==
    IF s = <<>> THEN <<>>
    ELSE (IF s[1] = c THEN with ELSE <<s[1]>>) \o Replace(Tail(s), c, with)

encode_segment(segment) == Replace(Replace(segment, "%", <<"%", "2", "5">>), ".", <<"%", "2", "E">>)

\* variant: an escape is recognised only in upper case
decode_segment_UpperOnly(segment) ==
    LET RECURSIVE From(_)
        From(i) ==
            IF i > Len(segment) THEN <<>>
            ELSE IF segment[i] = "%" /\ i + 2 <= Len(segment)
                    /\ SubSeq(segment, i + 1, i + 2) = <<"2", "E">>
            THEN <<".">> \o From(i + 3)
            ELSE IF segment[i] = "%" /\ i + 2 <= Len(segment)
                    /\ SubSeq(segment, i + 1, i + 2) = <<"2", "5">>
            THEN <<"%">> \o From(i + 3)
            ELSE <<segment[i]>> \o From(i + 1)
    IN  From(1)

\* A character outside ASCII is named by its code point.  str::as_bytes: the
\* UTF-8 bytes of the string, a byte being written as the character of the same
\* value (what `byte as char` gives), with a mark on the first byte of each
\* character
Utf8(c) ==
    CASE c = "U+00E9" -> <<"U+00C3", "U+00A9">>
      [] c = "U+20AC" -> <<"U+00E2", "U+0082", "U+00AC">>
      [] OTHER -> <<c>>

RECURSIVE as_bytes(_)
as_bytes(s) ==
    IF s = <<>> THEN <<>>
    ELSE [i \in 1..Len(Utf8(s[1])) |-> [b |-> Utf8(s[1])[i], start |-> i = 1]]
         \o as_bytes(Tail(s))

\* the loop of decode_segment; position i is byte index i - 1.  Slicing
\* segment[index + 1..index + 3] panics when index + 3 is inside a character
DecodeFrom(bytes, i) ==
    LET RECURSIVE From(_, _)
        \* `out` is the String the loop has pushed to so far
        From(k, out) ==
            IF k > Len(bytes) THEN Ok(out)
            ELSE IF bytes[k].b = "%" /\ (k - 1) + 2 < Len(bytes)
                    /\ k + 3 <= Len(bytes) /\ ~bytes[k + 3].start
            THEN Err("panic")
            ELSE LET escaped == bytes[k].b = "%" /\ (k - 1) + 2 < Len(bytes)
                     code == <<bytes[k + 1].b, bytes[k + 2].b>>
                     dot == escaped /\ EqIgnoreAsciiCase(code, <<"2", "e">>)
                     percent == escaped /\ EqIgnoreAsciiCase(code, <<"2", "5">>)
                 IN  IF dot THEN From(k + 3, Append(out, "."))
                     ELSE IF percent THEN From(k + 3, Append(out, "%"))
                     ELSE From(k + 1, Append(out, bytes[k].b))
    IN  From(i, <<>>)

\* the String decode_segment returns; the inputs of the model that reach it
\* through decode_path do not make it panic
decode_segment(segment) == DecodeFrom(as_bytes(segment), 1).v

decode_parts(path) ==
    IF path = <<>> THEN <<>>
    ELSE LET parts == Split(path, ".") IN [i \in 1..Len(parts) |-> decode_segment(parts[i])]

decode_path(path) == Join(decode_parts(path), <<".">>)

\* BTreeMap<String, Value>::iter: the keys in ascending order
RECURSIVE SortedKeys(_)
SortedKeys(keys) ==
    IF keys = {} THEN <<>>
    ELSE LET first == CHOOSE k \in keys : \A other \in keys : StrCmp(k, other) # "Greater"
         IN  <<first>> \o SortedKeys(keys \ {first})

\* variant: only the stored key is looked up
get_ExactOnly(object, path) ==
    IF path \in DOMAIN object.fields THEN Some(object.fields[path]) ELSE None

\* DynamicObject::get
get(object, path) ==
    IF path \in DOMAIN object.fields THEN Some(object.fields[path])
    ELSE LET First(found) == IF found = <<>> THEN None ELSE Some(object.fields[found[1]])
         IN  First(SelectSeq(SortedKeys(DOMAIN object.fields),
                             LAMBDA encoded_path : decode_path(encoded_path) = path))

----------------------------------------------------------------------------
(* Object materialisation (src/src/k8s/mod.rs) *)

\* flatten_value of k8s/mod.rs: keys are joined with '.' as they are.
\* serde_json::Map is iterated in key order
RECURSIVE flatten_value(_, _, _)
flatten_value(path, value, out) ==
    LET child_path(key) == IF path = <<>> THEN key ELSE path \o <<".">> \o key
        RECURSIVE Each(_, _, _, _)
        Each(keys, children, i, acc) ==
            IF i > Len(keys) THEN acc
            ELSE Each(keys, children, i + 1,
                      flatten_value(child_path(keys[i]), children[i], acc))
    IN  CASE value.t = "Object" ->
                LET keys == SortedKeys(DOMAIN value.v)
                IN  Each(keys, [i \in 1..Len(keys) |-> value.v[keys[i]]], 1, out)
          [] value.t = "Array" ->
                LET done == Each([i \in 1..Len(value.v) |-> to_string(i - 1)], value.v, 1, out)
                IN  IF path # <<>> THEN MapInsert(done, path, value) ELSE done
          [] value.t \in {"String", "Bool", "Number"} ->
                IF path # <<>> THEN MapInsert(out, path, value) ELSE out
          [] value.t = "Null" -> out

\* kube's DynamicObject -> EngineObject; object.metadata is the JSON value that
\* ObjectMeta serialises to, object.data the rest of the object
dynamic_to_engine_object(object) ==
    LET RECURSIVE Merge(_, _, _)
        Merge(keys, i, merged) ==
            IF i > Len(keys) THEN merged
            ELSE Merge(keys, i + 1, MapInsert(merged, keys[i], object.data.v[keys[i]]))
        with_metadata == <<"m", "e", "t", "a", "d", "a", "t", "a">> :> object.metadata
        merged == IF object.data.t = "Object"
                  THEN Merge(SortedKeys(DOMAIN object.data.v), 1, with_metadata)
                  ELSE MapInsert(with_metadata, <<"d", "a", "t", "a">>, object.data)
    IN  [fields |-> flatten_value(<<>>, Json("Object", merged), EmptyMap)]

MapObjects(items) == [i \in 1..Len(items) |-> dynamic_to_engine_object(items[i])]

----------------------------------------------------------------------------
(* What the cluster and the caller may do *)

ResPods == <<"p", "o", "d", "s">>
ResPodsRaw == <<" ", " ", "P", "o", "d", "s", " ">>
ResBlank == <<" ", " ">>
Resources == {ResPods, ResPodsRaw, ResBlank}

OptionSet ==
    {[field_selector |-> f, label_selector |-> l] :
        f \in {None, Some("metadata.name=worker-a")}, l \in {None, Some("app=api")}}

ApiPodsV1 == [group |-> "", version |-> "v1", kind |-> "Pod", plural |-> ResPods]
ApiPodsV2 == [group |-> "", version |-> "v2", kind |-> "Pod", plural |-> <<"P", "o", "d", "s">>]
ApiDeployments ==
    [group |-> "apps", version |-> "v1", kind |-> "Deployment", plural |-> <<"d", "e", "p", "l", "o", "y", "m", "e", "n", "t", "s">>]
Discoveries == {<<>>, <<ApiDeployments>>, <<ApiDeployments, ApiPodsV2, ApiPodsV1>>}

MsgFieldSelectorNotSupported == <<"f", "i", "e", "l", "d", " ", "s", "e", "l", "e", "c", "t", "o", "r", " ", "n", "o", "t", " ", "s", "u", "p", "p", "o", "r", "t", "e", "d">>
MsgInvalidRequestBody == <<"i", "n", "v", "a", "l", "i", "d", " ", "r", "e", "q", "u", "e", "s", "t", " ", "b", "o", "d", "y">>
MsgForbidden == <<"f", "o", "r", "b", "i", "d", "d", "e", "n">>
ReasonBadRequest == <<"B", "a", "d", "R", "e", "q", "u", "e", "s", "t">>

KubeErrors ==
    {TransportError("Service"), TransportError("HyperError"), TransportError("SerdeError"),
     ApiError(400, ReasonBadRequest, MsgFieldSelectorNotSupported),
     ApiError(400, ReasonBadRequest, MsgInvalidRequestBody),
     ApiError(403, <<>>, MsgForbidden),
     ApiError(404, <<>>, <<>>), ApiError(410, <<>>, <<>>),
     ApiError(429, <<>>, <<>>), ApiError(500, <<>>, <<>>)}

Object(n) ==
    [metadata |-> Json("Object", <<"n", "a", "m", "e">> :> Json("String", <<n>>)),
     data |-> Json("Object", EmptyMap)]
ItemSeqs == {<<>>, <<Object("b"), Object("a")>>}
Tokens == {None, Some(""), Some("t1"), Some("t2")}
Pages == [items : ItemSeqs, continue_ : Tokens]

Failures == {[tag |-> "err", source |-> e] : e \in KubeErrors} \cup {[tag |-> "timeout"]}
ListOutcomes == {[tag |-> "ok", value |-> p] : p \in Pages} \cup Failures
DiscoveryOutcomes == {[tag |-> "ok", value |-> d] : d \in Discoveries} \cup Failures

----------------------------------------------------------------------------
(* list_async as a state machine.  A step runs from one await to the next:    *)
(* the awaits are Config::infer, each attempt of run_with_retry (the request  *)
(* and the backoff sleep that follows a retried failure) and its return.      *)

\* rr: the stage of the running run_with_retry, how often it has invoked the
\* operation, the backoffs it has slept, how each attempt ended, the outcome of
\* the last attempt, once it has returned, the Result it returned, and the
\* ListParams each invocation of the list operation has sent
NoRetry ==
    [stage |-> "", invocations |-> 0, sleeps |-> <<>>, log |-> <<>>, last |-> None,
     ret |-> None, requests |-> <<>>]
NoParams == build_list_params(LIST_PAGE_SIZE, None, DefaultOptions)
NoApi == [group |-> "", version |-> "", kind |-> "", plural |-> <<>>]

Cur ==
    [pc |-> pc, cache |-> cache, phase |-> phase, fallback |-> fallback,
     api_resource |-> api_resource, diagnostics |-> diagnostics, all_items |-> all_items,
     continue_token |-> continue_token, page_count |-> page_count, params |-> params,
     attempt |-> attempt, result |-> result, rr |-> rr, sent |-> sent, pages |-> pages,
     calls |-> calls]

\* the record s is computed once and becomes the next state
Apply(s) ==
    \E r \in {s} :
        /\ pc' = r.pc /\ cache' = r.cache /\ phase' = r.phase /\ fallback' = r.fallback
        /\ api_resource' = r.api_resource /\ diagnostics' = r.diagnostics
        /\ all_items' = r.all_items /\ continue_token' = r.continue_token
        /\ page_count' = r.page_count /\ params' = r.params /\ attempt' = r.attempt
        /\ result' = r.result /\ rr' = r.rr /\ sent' = r.sent /\ pages' = r.pages
        /\ calls' = r.calls

\* calls: how often list_async resolved the resource, invalidated the cache and
\* entered list_with_selector_fallback (and with which options), how often the
\* running list_with_selector_fallback entered list_pages (and the options of
\* each entry), the kind of the error that made list_async refresh the discovery,
\* whether a run of list_pages that was given up had collected items, and how
\* many SelectorFallback diagnostics the call has recorded
NoCalls ==
    [resolve |-> 0, invalidate |-> 0, list_with_selector_fallback |-> 0,
     attempted |-> <<>>, list_pages |-> <<>>, refreshed_on |-> None, abandoned |-> FALSE,
     recorded |-> 0]

\* list_async returns
Return(s, res) == [s EXCEPT !.pc = "done", !.result = Some(res), !.rr = NoRetry]

\* run_with_retry is entered: attempt = 1
StartRequest(s, stage) ==
    [s EXCEPT !.pc = stage, !.attempt = 1, !.rr = [NoRetry EXCEPT !.stage = stage]]

\* variant: the fallback run keeps the selectors
CurOptions_KeepsSelectors(s) == options

\* the options of the running list_pages
CurOptions(s) == IF s.fallback THEN DefaultOptions ELSE options

\* list_async after list_with_selector_fallback returned res
AfterSelectorFallback(s, res) ==
    IF res.tag = "ok"
    THEN Return(s, [tag |-> "ok", value |->
                      [objects |-> MapObjects(res.value[1]), diagnostics |-> res.value[2]]])
    ELSE IF s.phase = 1 /\ should_retry_with_fresh_discovery(res.error)
    THEN [s EXCEPT !.cache = invalidate_discovery_cache(@), !.phase = 2,
                   !.pc = "resolve", !.rr = NoRetry,
                   \* the locals of the call that returned are gone
                   !.fallback = FALSE, !.diagnostics = <<>>, !.all_items = <<>>,
                   !.continue_token = None, !.page_count = 0, !.params = NoParams,
                   !.sent = <<>>, !.pages = <<>>,
                   !.calls.invalidate = @ + 1, !.calls.list_pages = <<>>,
                   !.calls.refreshed_on = Some(res.error.kind),
                   !.calls.abandoned = @ \/ s.all_items # <<>>]
    ELSE Return(s, res)

RECURSIVE LoopHead(_)
RECURSIVE AfterListPages(_, _)

\* variant: the items of the run before are kept
ListPagesStart_KeepsItems(s) ==
    LoopHead([s EXCEPT !.continue_token = None, !.page_count = 0,
                       !.sent = <<>>, !.pages = <<>>,
                       !.calls.list_pages = Append(@, CurOptions(s)),
                       !.calls.abandoned = @ \/ s.all_items # <<>>])

\* list_pages is entered with the options CurOptions(s)
ListPagesStart(s) ==
    LoopHead([s EXCEPT !.all_items = <<>>, !.continue_token = None, !.page_count = 0,
                       !.sent = <<>>, !.pages = <<>>,
                       !.calls.list_pages = Append(@, CurOptions(s)),
                       !.calls.abandoned = @ \/ s.all_items # <<>>])

\* the head of list_pages' loop: count the page, check the cap, issue the request
LoopHead(s) ==
    LET s1 == [s EXCEPT !.page_count = @ + 1]
        limit == ensure_page_limit(resource, s1.page_count)
    IN  IF limit.tag = "err" THEN AfterListPages(s1, limit)
        ELSE StartRequest(
                [s1 EXCEPT !.params =
                    build_list_params(LIST_PAGE_SIZE, s1.continue_token, CurOptions(s1))],
                "list")

\* variant: the fallback run is made without recording the diagnostic
AfterListPages_SilentFallback(s, res) ==
    IF res.tag = "ok"
    THEN AfterSelectorFallback(s, [tag |-> "ok", value |-> <<res.value, s.diagnostics>>])
    ELSE IF ~s.fallback /\ has_selectors(options) /\ should_retry_without_selectors(res.error)
    THEN ListPagesStart([s EXCEPT !.fallback = TRUE])
    ELSE AfterSelectorFallback(s, res)

\* list_with_selector_fallback after list_pages returned res
AfterListPages(s, res) ==
    IF res.tag = "ok"
    THEN AfterSelectorFallback(s, [tag |-> "ok", value |-> <<res.value, s.diagnostics>>])
    ELSE IF ~s.fallback /\ has_selectors(options) /\ should_retry_without_selectors(res.error)
    THEN ListPagesStart([s EXCEPT !.diagnostics = Append(@, SelectorFallback(options)),
                                  !.fallback = TRUE, !.calls.recorded = @ + 1])
    ELSE AfterSelectorFallback(s, res)

\* list_with_selector_fallback is entered
SelectorFallbackStart(s) ==
    ListPagesStart([s EXCEPT !.diagnostics = <<>>, !.fallback = FALSE,
                             !.calls.list_with_selector_fallback = @ + 1,
                             !.calls.attempted = Append(@, options),
                             !.calls.list_pages = <<>>])

\* how one attempt ended, as run_with_retry sees it
OutcomeClass(o) ==
    IF o.tag = "err"
    THEN (IF is_retryable_kube_error(o.source) THEN "retryable" ELSE "non_retryable")
    ELSE o.tag

\* variant: no per-attempt timeout, an unanswered request is awaited for ever
Attempt_AwaitsForever(s, o, had) ==
    LET turn == RetryTurn(s.rr.stage, DEFAULT_RETRY_POLICY, s.attempt, o, resource, had)
        s1 == [s EXCEPT !.rr.invocations = @ + 1, !.rr.log = Append(@, OutcomeClass(o)),
                        !.rr.last = Some(o)]
    IN  IF o.tag = "timeout" THEN [s1 EXCEPT !.pc = "pending"]
        ELSE IF turn.tag = "retry"
        THEN [s1 EXCEPT !.attempt = @ + 1, !.rr.sleeps = Append(@, turn.sleep)]
        ELSE [s1 EXCEPT !.rr.ret = Some(turn),
                        !.pc = IF s.rr.stage = "list" THEN "list_ret" ELSE "discovery_ret"]

\* variant: a retry starts the paging over
Attempt_RetryDropsToken(s, o, had) ==
    LET turn == RetryTurn(s.rr.stage, DEFAULT_RETRY_POLICY, s.attempt, o, resource, had)
        s1 == [s EXCEPT !.rr.invocations = @ + 1, !.rr.log = Append(@, OutcomeClass(o)),
                        !.rr.last = Some(o)]
    IN  IF turn.tag = "retry"
        THEN [s1 EXCEPT !.attempt = @ + 1, !.rr.sleeps = Append(@, turn.sleep),
                        !.params.continue_token = None]
        ELSE [s1 EXCEPT !.rr.ret = Some(turn),
                        !.pc = IF s.rr.stage = "list" THEN "list_ret" ELSE "discovery_ret"]

\* one turn of run_with_retry on outcome o of the attempt
Attempt(s, o, had) ==
    LET turn == RetryTurn(s.rr.stage, DEFAULT_RETRY_POLICY, s.attempt, o, resource, had)
        s1 == [s EXCEPT !.rr.invocations = @ + 1, !.rr.log = Append(@, OutcomeClass(o)),
                        !.rr.last = Some(o)]
    IN  IF turn.tag = "retry"
        THEN [s1 EXCEPT !.attempt = @ + 1, !.rr.sleeps = Append(@, turn.sleep)]
        ELSE [s1 EXCEPT !.rr.ret = Some(turn),
                        !.pc = IF s.rr.stage = "list" THEN "list_ret" ELSE "discovery_ret"]

----------------------------------------------------------------------------
(* Actions *)

\* the components a specification does not exercise stay as constructed
CacheIdle ==
    /\ dcache = <<>> /\ lock = [readers |-> {}, writer |-> None]
    /\ tasks = <<>> /\ latest = <<>> /\ last_call = None
PlannerIdle == predicates = <<>> /\ plan = None
EngineIdle == objects = <<>> /\ query = None /\ output = None
PathIdle == root = None /\ fields = None /\ rebuilt = None
CodecIdle == seg = None /\ encoded = None /\ decoded = None
MaterialIdle == raw = None /\ materialised = None
ParserIdle == words = None /\ parsed = None
RunIdle == ast = None /\ cluster = <<>> /\ list_result = None /\ rows = None

Init ==
    /\ pc = "start"
    /\ resource \in Resources
    /\ options \in OptionSet
    /\ now = 0
    /\ cache \in {None} \cup
            {Some([api_resource |-> a, expires_at |-> e]) :
                a \in {ApiPodsV1}, e \in {0, DISCOVERY_CACHE_TTL}}
    /\ phase = 1
    /\ fallback = FALSE
    /\ api_resource = NoApi
    /\ diagnostics = <<>>
    /\ all_items = <<>> /\ continue_token = None /\ page_count = 0 /\ params = NoParams
    /\ attempt = 0
    /\ result = None
    /\ rr = NoRetry
    /\ sent = <<>> /\ pages = <<>> /\ calls = NoCalls
    /\ source = TransportError("Service") /\ had_selectors = FALSE
    /\ class = "" /\ mapped = None
    /\ CacheIdle /\ PlannerIdle /\ EngineIdle /\ PathIdle /\ CodecIdle /\ MaterialIdle /\ ParserIdle /\ RunIdle

\* list_async up to resolve_api_resource_cached
Start ==
    /\ pc = "start"
    /\ resource' = normalize_resource(resource)
    /\ \E env \in {"ok", "ConfigInfer", "ClientBuild"} :
        Apply(IF resource' = <<>> THEN Return(Cur, [tag |-> "err", error |-> [kind |-> "EmptyResourceName"]])
              ELSE IF env # "ok" THEN Return(Cur, [tag |-> "err", error |-> [kind |-> env]])
              ELSE [Cur EXCEPT !.pc = "resolve"])
    /\ UNCHANGED <<options, now, source, had_selectors, class, mapped,
                 cacheVars, plannerVars, engineVars, pathVars, codecVars, materialVars, parserVars, runVars>>

\* resolve_api_resource_cached: the cache lookup, then discovery or the list
Resolve ==
    /\ pc = "resolve"
    /\ \E t \in now..MaxNow :
        /\ now' = t
        /\ LET found == cache_lookup(cache, t)
               s == [Cur EXCEPT !.cache = found.cache, !.calls.resolve = @ + 1]
           IN  Apply(IF found.value # None
                     THEN SelectorFallbackStart([s EXCEPT !.api_resource = found.value[1]])
                     ELSE StartRequest(s, "discovery"))
    /\ UNCHANGED <<resource, options, source, had_selectors, class, mapped,
                 cacheVars, plannerVars, engineVars, pathVars, codecVars, materialVars, parserVars, runVars>>

\* one attempt of the discovery request, answered by one of outcomes
DiscoveryAttemptOn(outcomes) ==
    /\ pc = "discovery"
    /\ \E o \in outcomes : Apply(Attempt(Cur, o, FALSE))
    /\ UNCHANGED <<resource, options, now, source, had_selectors, class, mapped,
                 cacheVars, plannerVars, engineVars, pathVars, codecVars, materialVars, parserVars, runVars>>

\* resolve_api_resource after run_with_retry returned, cache_insert, then the list
DiscoveryReturn ==
    /\ pc = "discovery_ret"
    /\ LET ret == rr.ret[1]
           api == IF ret.tag = "ok" THEN FindResource(ret.value, resource) ELSE None
       IN  IF ret.tag = "err"
           THEN Apply(Return(Cur, ret)) /\ now' = now
           ELSE IF api = None
           THEN /\ Apply(Return(Cur, [tag |-> "err", error |->
                            [kind |-> "ResourceNotFound", resource |-> resource]]))
                /\ now' = now
           ELSE \E t \in now..MaxNow :
                /\ now' = t
                /\ Apply(SelectorFallbackStart(
                        [Cur EXCEPT !.cache = cache_insert(api[1], DISCOVERY_CACHE_TTL, t),
                                    !.api_resource = api[1]]))
    /\ UNCHANGED <<resource, options, source, had_selectors, class, mapped,
                 cacheVars, plannerVars, engineVars, pathVars, codecVars, materialVars, parserVars, runVars>>

\* one attempt of a page request, api.list(&params), answered by one of outcomes
ListAttemptOn(outcomes) ==
    /\ pc = "list"
    /\ \E o \in outcomes :
        Apply(Attempt([Cur EXCEPT !.sent = IF rr.invocations = 0 THEN Append(@, params) ELSE @,
                                  !.rr.requests = Append(@, params)],
                      o, has_selectors(CurOptions(Cur))))
    /\ UNCHANGED <<resource, options, now, source, had_selectors, class, mapped,
                 cacheVars, plannerVars, engineVars, pathVars, codecVars, materialVars, parserVars, runVars>>

\* list_pages after run_with_retry returned: append the page, read its token
ListReturn ==
    /\ pc = "list_ret"
    /\ LET ret == rr.ret[1]
           s == [Cur EXCEPT !.rr = NoRetry]
       IN  IF ret.tag = "err" THEN Apply(AfterListPages(s, ret))
           ELSE LET page == ret.value
                    s1 == [s EXCEPT !.all_items = @ \o page.items,
                                    !.pages = Append(@, page)]
                    next == next_continue_token(resource, s1.continue_token, page.continue_)
                IN  IF next.tag = "err" THEN Apply(AfterListPages(s1, next))
                    ELSE IF next.value = None
                    THEN Apply(AfterListPages([s1 EXCEPT !.continue_token = None],
                                              [tag |-> "ok", value |-> s1.all_items]))
                    ELSE Apply(LoopHead([s1 EXCEPT !.continue_token = next.value]))
    /\ UNCHANGED <<resource, options, now, source, had_selectors, class, mapped,
                 cacheVars, plannerVars, engineVars, pathVars, codecVars, materialVars, parserVars, runVars>>

DiscoveryAttempt == DiscoveryAttemptOn(DiscoveryOutcomes)
ListAttempt == ListAttemptOn(ListOutcomes)

Next == Start \/ Resolve \/ DiscoveryAttempt \/ DiscoveryReturn \/ ListAttempt \/ ListReturn

Spec == Init /\ [][Next]_vars

----------------------------------------------------------------------------
(* Vocabulary of the properties *)

Returned == pc \in {"list_ret", "discovery_ret"}
Ret == rr.ret[1]
Done == pc = "done"
Failed(kind) == Done /\ result[1].tag = "err" /\ result[1].error.kind = kind
Succeeded == Done /\ result[1].tag = "ok"

\* the page request made by list_pages has returned this error
PageRequestFailed == pc = "list_ret" /\ Ret.tag = "err"

IsFreshToken(tok) == tok # None /\ tok[1] # ""
IsStale(error) ==
    \/ error.kind = "ResourceResolutionStale"
    \/ error.kind = "RetryExhausted" /\ error.final_error = "ResourceResolutionStale"

RECURSIVE ConcatItems(_)
ConcatItems(ps) == IF ps = <<>> THEN <<>> ELSE Head(ps).items \o ConcatItems(Tail(ps))

RECURSIVE SumItems(_)
SumItems(ps) == IF ps = <<>> THEN 0 ELSE Len(Head(ps).items) + SumItems(Tail(ps))

----------------------------------------------------------------------------
(* C1: in list_with_selector_fallback, a list that fails with SelectorRejected  *)
(* while the options carry a selector is re-run once with both selectors empty  *)
(* and one SelectorFallback{ApiRejectedBadRequest, attempted: options} is       *)
(* recorded; a failure of the second run is returned without another fallback;  *)
(* without selectors no fallback run is made.                                   *)

C1_Rejected ==
    /\ PageRequestFailed /\ ~fallback
    /\ Ret.error.kind = "SelectorRejected" /\ has_selectors(options)

C1_Inv ==
    /\ Len(calls.list_pages) <= 2
    /\ Len(diagnostics) <= 1
    /\ fallback <=> Len(calls.list_pages) = 2
    /\ fallback => /\ has_selectors(options)
                   /\ calls.list_pages = <<options, DefaultOptions>>
                   /\ diagnostics = <<SelectorFallback(options)>>
                   /\ \A i \in 1..Len(sent) :
                        sent[i].field_selector = None /\ sent[i].label_selector = None
    /\ ~fallback => diagnostics = <<>>
    /\ ~has_selectors(options) => ~fallback

C1_Step ==
    /\ C1_Rejected =>
        /\ fallback' /\ pc' = "list" /\ attempt' = 1
        /\ all_items' = <<>> /\ page_count' = 1
        /\ params' = build_list_params(LIST_PAGE_SIZE, None, DefaultOptions)
        /\ diagnostics' = <<SelectorFallback(options)>>
    /\ (~fallback /\ fallback') => C1_Rejected
    /\ (PageRequestFailed /\ fallback) =>
        \/ Done' /\ result' = Some(Ret)
        \/ phase = 1 /\ IsStale(Ret.error) /\ pc' = "resolve" /\ phase' = 2

C1_SelectorFallbackOnce == []C1_Inv /\ [][C1_Step]_vars

C1_Witness == Succeeded /\ fallback /\ result[1].value.diagnostics # <<>>

----------------------------------------------------------------------------
(* C2 as amended: in list_async, a list (its selector fallback included) that   *)
(* fails with a stale resource resolution, directly or as the final error of an *)
(* exhausted retry, makes list_async remove the cache entry and resolve the     *)
(* resource again; if that resolution succeeds the list is re-run once with the *)
(* original options, and if it fails its error is returned without a re-run; a  *)
(* failure of the second run is returned without another refresh: at most two   *)
(* resolutions and one invalidation per call.                                   *)

C2_StaleFailure == PageRequestFailed /\ IsStale(Ret.error)

C2_ResolutionFailed ==
    /\ Done /\ result[1].tag = "err"
    /\ \/ result[1].error.kind \in {"ResourceNotFound", "DiscoveryRun"}
       \/ result[1].error.kind \in {"ApiUnreachable", "RetryExhausted"}
            /\ result[1].error.stage = "discovery"

C2_Inv(rerun) ==
    /\ calls.resolve <= 2 /\ calls.invalidate <= 1
    /\ calls.list_with_selector_fallback <= 2
    /\ calls.list_with_selector_fallback <= calls.resolve
    /\ \A i \in 1..Len(calls.attempted) : calls.attempted[i] = options
    /\ calls.invalidate = 1 <=> phase = 2
    /\ phase = 2 =>
        calls.refreshed_on \in {Some("ResourceResolutionStale"), Some("RetryExhausted")}
    /\ (Done /\ phase = 2) =>
        /\ calls.resolve = 2
        /\ rerun

C2_Step ==
    /\ (C2_StaleFailure /\ phase = 1) =>
        /\ pc' = "resolve" /\ phase' = 2 /\ cache' = None
        /\ calls'.invalidate = 1 /\ result' = None
    /\ (phase = 1 /\ phase' = 2) => C2_StaleFailure
    /\ (pc = "resolve" /\ phase = 2) => calls'.resolve = 2
    /\ (phase = 2 /\ calls.list_with_selector_fallback = 1
            /\ calls'.list_with_selector_fallback = 2) =>
        /\ pc' = "list" /\ calls'.attempted = <<options, options>>
        /\ params' = build_list_params(LIST_PAGE_SIZE, None, options)
    /\ (phase = 2 /\ PageRequestFailed /\ (fallback \/ ~C1_Rejected)) =>
        /\ Done' /\ result' = Some(Ret)
        /\ cache' = cache /\ calls' = calls

C2_Rerun == calls.list_with_selector_fallback = 2

\* a failed second resolution is returned as it is
C2_StepResolution ==
    (phase = 2 /\ pc = "discovery_ret" /\ Ret.tag = "err") =>
        Done' /\ result' = Some(Ret) /\ calls' = calls

C2_FreshDiscoveryOnce ==
    /\ []C2_Inv(C2_Rerun <=> ~C2_ResolutionFailed)
    /\ [][C2_Step /\ C2_StepResolution]_vars

\* C2 as stated: after the stale failure the list is always re-run
C2_Original == []C2_Inv(C2_Rerun) /\ [][C2_Step]_vars

C2_Witness ==
    /\ Failed("ResourceResolutionStale")
    /\ calls.invalidate = 1 /\ calls.resolve = 2 /\ calls.list_with_selector_fallback = 2

----------------------------------------------------------------------------
(* C3: list_pages fetches its pages one after another: the first request has    *)
(* no continue token, every later request has the non-empty token of the page   *)
(* before it, paging stops at the first page whose token is absent or empty,    *)
(* and the items returned are the pages' items concatenated in page order.      *)

C3_PagesInSequence ==
    /\ Len(sent) \in {Len(pages), Len(pages) + 1}
    /\ (pc = "list" /\ rr.invocations > 0) => Len(sent) = Len(pages) + 1
    /\ sent # <<>> => sent[1].continue_token = None
    /\ \A i \in 2..Len(sent) :
        /\ IsFreshToken(pages[i - 1].continue_)
        /\ sent[i].continue_token = pages[i - 1].continue_
    /\ \A i \in 1..Len(pages) :
        ~IsFreshToken(pages[i].continue_) => i = Len(pages) /\ Len(sent) = i
    /\ all_items = ConcatItems(pages)
    /\ Len(all_items) = SumItems(pages)
    /\ Succeeded =>
        /\ pages # <<>> /\ ~IsFreshToken(pages[Len(pages)].continue_)
        /\ result[1].value.objects = MapObjects(ConcatItems(pages))
        /\ Len(result[1].value.objects) = SumItems(pages)

C3_Witness ==
    /\ Succeeded /\ Len(pages) >= 2
    /\ pages[1].items # <<>> /\ pages[2].items # <<>>

----------------------------------------------------------------------------
(* C4: a page that returns a non-empty continue token equal to the token sent   *)
(* to fetch it makes the list fail with PaginationStuck{resource, token}, and   *)
(* no further page is requested; an absent or empty token is never stuck.       *)

C4_Stuck(i) ==
    /\ i <= Len(sent) /\ IsFreshToken(pages[i].continue_)
    /\ pages[i].continue_ = sent[i].continue_token

C4_PaginationStuck ==
    /\ \A i \in 1..Len(pages) :
        C4_Stuck(i) =>
            /\ i = Len(pages) /\ Len(sent) = i
            /\ Done /\ result[1] = [tag |-> "err", error |->
                    [kind |-> "PaginationStuck", resource |-> resource,
                     token |-> pages[i].continue_[1]]]
    /\ Failed("PaginationStuck") => pages # <<>> /\ C4_Stuck(Len(pages))

C4_Witness == Failed("PaginationStuck") /\ Len(pages) = 2

----------------------------------------------------------------------------
(* C5: one run of list_pages issues at most MAX_LIST_PAGES page requests: a     *)
(* listing that ends on page MAX_LIST_PAGES succeeds, and one whose page        *)
(* MAX_LIST_PAGES returns a fresh token fails with PaginationExceeded           *)
(* {max_pages: MAX_LIST_PAGES} before another request is sent.                  *)

C5_PageCap ==
    /\ Len(sent) <= MAX_LIST_PAGES
    /\ page_count <= MAX_LIST_PAGES + 1
    /\ Failed("PaginationExceeded") =>
        /\ Len(sent) = MAX_LIST_PAGES /\ Len(pages) = MAX_LIST_PAGES
        /\ IsFreshToken(pages[MAX_LIST_PAGES].continue_) /\ ~C4_Stuck(MAX_LIST_PAGES)
        /\ result[1].error = [kind |-> "PaginationExceeded", resource |-> resource,
                              max_pages |-> MAX_LIST_PAGES]
    /\ Len(pages) = MAX_LIST_PAGES =>
        IF IsFreshToken(pages[MAX_LIST_PAGES].continue_) /\ ~C4_Stuck(MAX_LIST_PAGES)
        THEN Failed("PaginationExceeded")
        ELSE IF ~IsFreshToken(pages[MAX_LIST_PAGES].continue_)
        THEN Succeeded /\ Len(result[1].value.objects) = SumItems(pages)
        ELSE Failed("PaginationStuck")

C5_Witness == Failed("PaginationExceeded") /\ Len(sent) = MAX_LIST_PAGES

----------------------------------------------------------------------------
(* Vocabulary of the retry properties *)

Last(s) == s[Len(s)]
RetryFailed(reason) ==
    /\ Returned /\ Ret.tag = "err"
    /\ Ret.error.kind = "RetryExhausted" /\ Ret.error.reason = reason

\* the selectors of the request that was sent
SentSelectors == params.field_selector # None \/ params.label_selector # None

\* the kind of error the stage reports for a kube::Error it did not retry
StageErrorKind(src) ==
    IF rr.stage = "discovery"
    THEN (IF src.variant \in {"Service", "HyperError"} THEN "ApiUnreachable" ELSE "DiscoveryRun")
    ELSE IF src.variant \in {"Service", "HyperError"} THEN "ApiUnreachable"
    ELSE IF src.variant = "Api" /\ src.code \in {404, 410} THEN "ResourceResolutionStale"
    ELSE IF src.variant = "Api" /\ src.code = 400 /\ SentSelectors
            /\ src.message = MsgFieldSelectorNotSupported
    THEN "SelectorRejected"
    ELSE "ListFailed"

----------------------------------------------------------------------------
(* C6: for every sequence of attempt outcomes run_with_retry invokes the       *)
(* operation at most max_attempts (3) times for one request, the counter       *)
(* starting again at 1 for every page request and for discovery, and stops at  *)
(* the first success: a success on attempt k after k - 1 retryable failures or *)
(* timeouts returns that attempt's value after exactly k invocations.          *)

C6_AttemptsBounded ==
    /\ rr.invocations <= 3
    /\ rr.invocations <= DEFAULT_RETRY_POLICY.max_attempts
    /\ Len(rr.log) = rr.invocations
    /\ pc \in {"list", "discovery"} =>
        /\ attempt = rr.invocations + 1
        /\ \A i \in 1..Len(rr.log) : rr.log[i] \in {"retryable", "timeout"}
    /\ \A i \in 1..Len(rr.log) :
        rr.log[i] = "ok" =>
            /\ i = Len(rr.log) /\ Returned
            /\ \A j \in 1..(i - 1) : rr.log[j] \in {"retryable", "timeout"}
            /\ Ret = [tag |-> "ok", value |-> rr.last[1].value]
            /\ rr.invocations = i /\ attempt = i
    /\ (Returned /\ Ret.tag = "ok") => Last(rr.log) = "ok"

C6_Witness ==
    /\ pc = "list_ret" /\ Ret.tag = "ok" /\ rr.invocations = 3
    /\ rr.log = <<"timeout", "retryable", "ok">> /\ Len(pages) = 1

----------------------------------------------------------------------------
(* C7 as amended: a first attempt that fails with a non-retryable error makes   *)
(* run_with_retry return at once, without a second attempt or a sleep, the      *)
(* mapped error itself, not wrapped in RetryExhausted: in the list stage        *)
(* ListFailed, or SelectorRejected or ResourceResolutionStale when the error    *)
(* classifies as such.  Only Service / HyperError transport errors, API 429     *)
(* and API >= 500 are classified retryable.                                     *)

C7_ClaimedRetryable(src) ==
    \/ src.variant \in {"Service", "HyperError"}
    \/ src.variant = "Api" /\ (src.code = 429 \/ src.code >= 500)

C7_FirstAttemptNonRetryable == Returned /\ rr.log = <<"non_retryable">>

C7_FailsFast(kinds) ==
    /\ C7_FirstAttemptNonRetryable =>
        /\ rr.invocations = 1 /\ attempt = 1 /\ rr.sleeps = <<>>
        /\ Ret.tag = "err" /\ Ret.error.kind # "RetryExhausted"
        /\ Ret.error.source = rr.last[1].source
        /\ ~C7_ClaimedRetryable(Ret.error.source)
        /\ Ret.error.kind = StageErrorKind(Ret.error.source)
        /\ rr.stage = "list" => Ret.error.kind \in kinds
    /\ (rr.last # None /\ rr.last[1].tag = "err") =>
        (Last(rr.log) = "retryable" <=> C7_ClaimedRetryable(rr.last[1].source))

C7_NonRetryableFailsFast ==
    C7_FailsFast({"ListFailed", "SelectorRejected", "ResourceResolutionStale"})

\* C7 as stated: the mapped error is ListFailed in the list stage
C7_Original == C7_FailsFast({"ListFailed"})

C7_Witness ==
    /\ C7_FirstAttemptNonRetryable /\ rr.stage = "list"
    /\ Ret.error.kind = "ListFailed" /\ Ret.error.source.code = 403

----------------------------------------------------------------------------
(* C8: when every attempt of a request fails retryably (a timeout counts as    *)
(* retryable), run_with_retry returns RetryExhausted with attempts =           *)
(* max_attempts and reason RetryCapReached, whose final_error is the kind of   *)
(* the last failure: ApiUnreachable for a transport error, RequestTimeout for  *)
(* a timeout.                                                                  *)

C8_AllRetryable ==
    /\ Returned
    /\ \A i \in 1..Len(rr.log) : rr.log[i] \in {"retryable", "timeout"}

C8_RetryCapReached ==
    C8_AllRetryable =>
        /\ rr.invocations = DEFAULT_RETRY_POLICY.max_attempts
        /\ Len(rr.sleeps) = DEFAULT_RETRY_POLICY.max_attempts - 1
        /\ Ret.tag = "err" /\ Ret.error.kind = "RetryExhausted"
        /\ Ret.error.stage = rr.stage
        /\ Ret.error.attempts = DEFAULT_RETRY_POLICY.max_attempts
        /\ Ret.error.reason = "RetryCapReached"
        /\ Ret.error.source.kind = Ret.error.final_error
        /\ Ret.error.final_error =
            IF Last(rr.log) = "timeout" THEN "RequestTimeout"
            ELSE StageErrorKind(rr.last[1].source)
        /\ (Last(rr.log) = "retryable"
                /\ rr.last[1].source.variant \in {"Service", "HyperError"}) =>
            Ret.error.final_error = "ApiUnreachable"

C8_Witness ==
    /\ RetryFailed("RetryCapReached") /\ Ret.error.final_error = "RequestTimeout"
    /\ rr.log = <<"retryable", "retryable", "timeout">>

----------------------------------------------------------------------------
(* C9: a non-retryable error on attempt n > 1 makes run_with_retry return      *)
(* RetryExhausted with reason NonRetryable, attempts = n and final_error the   *)
(* kind of that error; NonRetryable is never reported with attempts = 1 and    *)
(* RetryCapReached never with attempts < max_attempts.                         *)

C9_NonRetryableAfterRetry ==
    /\ (Returned /\ Len(rr.log) > 1 /\ Last(rr.log) = "non_retryable") =>
        /\ Ret.tag = "err" /\ Ret.error.kind = "RetryExhausted"
        /\ Ret.error.stage = rr.stage
        /\ Ret.error.reason = "NonRetryable"
        /\ Ret.error.attempts = Len(rr.log) /\ rr.invocations = Len(rr.log)
        /\ Ret.error.final_error = StageErrorKind(rr.last[1].source)
        /\ Ret.error.source.kind = Ret.error.final_error
        /\ Ret.error.source.source = rr.last[1].source
    /\ RetryFailed("NonRetryable") =>
        /\ Ret.error.attempts > 1 /\ Last(rr.log) = "non_retryable"
    /\ RetryFailed("RetryCapReached") =>
        Ret.error.attempts = DEFAULT_RETRY_POLICY.max_attempts

C9_Witness ==
    /\ RetryFailed("NonRetryable") /\ Ret.error.attempts = 2
    /\ Ret.error.final_error = "SelectorRejected"

----------------------------------------------------------------------------
(* classify_list_error and map_list_error as functions of their inputs *)

MsgFieldSelectorMixedCase == <<"F", "i", "e", "l", "d", " ", "S", "e", "l", "e", "c", "t", "o", "r", " ", "r", "e", "j", "e", "c", "t", "e", "d">>
MsgLabelSelectorUpper == <<"b", "a", "d", " ", "L", "A", "B", "E", "L", " ", "S", "E", "L", "E", "C", "T", "O", "R">>
MsgFieldLabelNotSupported == <<"f", "i", "e", "l", "d", " ", "l", "a", "b", "e", "l", " ", "n", "o", "t", " ", "s", "u", "p", "p", "o", "r", "t", "e", "d", ":", " ", "s", "p", "e", "c">>
MsgNearMiss == <<"f", "i", "e", "l", "d", " ", "s", "e", "l", "e", "c", "t", "o">>
ReasonNotAKnownFieldSelector == <<"x", " ", "i", "s", " ", "n", "o", "t", " ", "a", " ", "k", "n", "o", "w", "n", " ", "f", "i", "e", "l", "d", " ", "s", "e", "l", "e", "c", "t", "o", "r">>

Codes == {400, 403, 404, 410, 429, 500}
Reasons == {<<>>, ReasonBadRequest, ReasonNotAKnownFieldSelector}
Messages ==
    {<<>>, MsgFieldSelectorNotSupported, MsgInvalidRequestBody, MsgForbidden,
     MsgFieldSelectorMixedCase, MsgLabelSelectorUpper, MsgFieldLabelNotSupported,
     MsgNearMiss}

ClassifyInputs ==
    {ApiError(c, r, m) : c \in Codes, r \in Reasons, m \in Messages}
        \cup {TransportError(v) : v \in {"Service", "HyperError", "SerdeError"}}

InitClassify ==
    /\ pc = "classify"
    /\ resource = ResPods /\ options = DefaultOptions /\ now = 0 /\ cache = None
    /\ phase = 1 /\ fallback = FALSE /\ api_resource = NoApi /\ diagnostics = <<>>
    /\ all_items = <<>> /\ continue_token = None /\ page_count = 0 /\ params = NoParams
    /\ attempt = 0 /\ result = None /\ rr = NoRetry
    /\ sent = <<>> /\ pages = <<>> /\ calls = NoCalls
    /\ source \in ClassifyInputs
    /\ had_selectors \in BOOLEAN
    /\ class = "" /\ mapped = None
    /\ CacheIdle /\ PlannerIdle /\ EngineIdle /\ PathIdle /\ CodecIdle /\ MaterialIdle /\ ParserIdle /\ RunIdle

\* map_list_error(resource, had_selectors, source), with the class it goes through
Classify ==
    /\ pc = "classify" /\ class = ""
    /\ class' = classify_list_error(source, had_selectors)
    /\ mapped' = Some(map_list_error(resource, had_selectors, source))
    /\ UNCHANGED <<pc, resource, options, now, cache, phase, fallback, api_resource,
                   diagnostics, all_items, continue_token, page_count, params, attempt,
                   result, rr, sent, pages, calls, source, had_selectors,
                   cacheVars, plannerVars, engineVars, pathVars, codecVars, materialVars, parserVars, runVars>>

NextClassify == Classify

SpecClassify == InitClassify /\ [][NextClassify]_vars

----------------------------------------------------------------------------
(* C10 as amended: classify_list_error yields SelectorRejected only for an API  *)
(* error with code 400 whose reason or message contains, ignoring ASCII case,   *)
(* one of the four selector markers, and only when the request had selectors;   *)
(* API 404 and 410 yield ResourceResolutionStale; a Service / HyperError        *)
(* transport error yields ApiUnreachable; everything else yields Other, which   *)
(* map_list_error turns into ListFailed.                                        *)

C10_HasMarker(s) == \E k \in 1..4 : Contains(s, SELECTOR_MARKERS[k])
C10_HasMarkerIgnoringCase(s) == C10_HasMarker(ToAsciiLowercase(s))

C10_Class(marked) ==
    IF source.variant = "Api" /\ source.code = 400 /\ marked /\ had_selectors
    THEN "SelectorRejected"
    ELSE IF source.variant = "Api" /\ source.code \in {404, 410}
    THEN "ResourceResolutionStale"
    ELSE IF source.variant \in {"Service", "HyperError"} THEN "ApiUnreachable"
    ELSE "Other"

C10_Classified(marked) ==
    class # "" =>
        /\ class = C10_Class(marked)
        /\ mapped[1].source = source
        /\ mapped[1].kind = IF class = "Other" THEN "ListFailed" ELSE class

C10_Classification ==
    C10_Classified(C10_HasMarkerIgnoringCase(source.reason)
                    \/ C10_HasMarkerIgnoringCase(source.message))

\* C10 as stated: the reason or the message contains a marker
C10_Original == C10_Classified(C10_HasMarker(source.reason) \/ C10_HasMarker(source.message))

C10_Witness ==
    /\ class = "SelectorRejected" /\ source.message = MsgFieldSelectorMixedCase
    /\ source.reason = ReasonBadRequest /\ mapped[1].kind = "SelectorRejected"

----------------------------------------------------------------------------
(* The discovery cache as a map: cache_insert, cache_lookup and              *)
(* invalidate_discovery_cache called one after another on DISCOVERY_CACHE    *)

\* DiscoveryCacheKey::new
DiscoveryCacheKey(cluster_identity, namespace, res) ==
    [cluster_identity |-> cluster_identity, namespace |-> namespace,
     resource |-> normalize_resource(res)]

KeyPods == DiscoveryCacheKey("cluster-a", "default", ResPodsRaw)
KeyDeployments == DiscoveryCacheKey("cluster-a", "default", ApiDeployments.plural)
CacheKeys == {KeyPods, KeyDeployments}
CachedResources == {ApiPodsV1, ApiPodsV2}
Ttls == {0, DISCOVERY_CACHE_TTL}

\* the lister's variables apart from the clock, as constructed
listerRest == <<pc, resource, options, cache, phase, fallback, api_resource,
                diagnostics, all_items, continue_token, page_count, params, attempt,
                result, rr, sent, pages, calls, source, had_selectors, class, mapped>>

ListerIdle ==
    /\ pc = "idle"
    /\ resource = ResPods /\ options = DefaultOptions /\ cache = None
    /\ phase = 1 /\ fallback = FALSE /\ api_resource = NoApi /\ diagnostics = <<>>
    /\ all_items = <<>> /\ continue_token = None /\ page_count = 0 /\ params = NoParams
    /\ attempt = 0 /\ result = None /\ rr = NoRetry
    /\ sent = <<>> /\ pages = <<>> /\ calls = NoCalls
    /\ source = TransportError("Service") /\ had_selectors = FALSE
    /\ class = "" /\ mapped = None

InitCache ==
    /\ ListerIdle /\ now = 0
    /\ dcache = EmptyMap /\ lock = [readers |-> {}, writer |-> None]
    /\ tasks = <<>> /\ latest = EmptyMap /\ last_call = None
    /\ PlannerIdle /\ EngineIdle /\ PathIdle /\ CodecIdle /\ MaterialIdle /\ ParserIdle /\ RunIdle

\* cache_insert(key, api_resource, ttl) at some later instant
CacheInsert ==
    \E k \in CacheKeys, api \in CachedResources, ttl \in Ttls, t \in now..MaxNow :
        /\ now' = t
        /\ dcache' = MapSet(dcache, k, cache_insert(api, ttl, t))
        /\ latest' = MapInsert(latest, k, [api_resource |-> api, expires_at |-> t + ttl])
        /\ last_call' = Some([op |-> "cache_insert", key |-> k, at |-> t, before |-> dcache])
        /\ UNCHANGED <<listerRest, lock, tasks, plannerVars, engineVars, pathVars, codecVars, materialVars, parserVars, runVars>>

\* cache_lookup(key) at some later instant
CacheLookup ==
    \E k \in CacheKeys, t \in now..MaxNow :
        LET found == cache_lookup(MapGet(dcache, k), t)
        IN  /\ now' = t
            /\ dcache' = MapSet(dcache, k, found.cache)
            /\ last_call' = Some([op |-> "cache_lookup", key |-> k, at |-> t,
                                  before |-> dcache, value |-> found.value])
            /\ UNCHANGED <<listerRest, lock, tasks, latest, plannerVars, engineVars, pathVars, codecVars, materialVars, parserVars, runVars>>

\* invalidate_discovery_cache(key) at some later instant
CacheInvalidate ==
    \E k \in CacheKeys, t \in now..MaxNow :
        /\ now' = t
        /\ dcache' = MapSet(dcache, k, invalidate_discovery_cache(MapGet(dcache, k)))
        /\ latest' = MapRemove(latest, k)
        /\ last_call' = Some([op |-> "invalidate_discovery_cache", key |-> k, at |-> t,
                              before |-> dcache])
        /\ UNCHANGED <<listerRest, lock, tasks, plannerVars, engineVars, pathVars, codecVars, materialVars, parserVars, runVars>>

NextCache == CacheInsert \/ CacheLookup \/ CacheInvalidate

SpecCache == InitCache /\ [][NextCache]_vars

----------------------------------------------------------------------------
(* C11: after any sequence of cache_insert, cache_lookup and                 *)
(* invalidate_discovery_cache calls, cache_lookup(key) returns the           *)
(* ApiResource most recently inserted for the key iff there is one, it was   *)
(* not invalidated since and it has not expired; a lookup that finds an      *)
(* expired entry returns a miss and removes the entry, and no lookup returns *)
(* an expired entry.                                                         *)

C11_Looked == last_call # None /\ last_call[1].op = "cache_lookup"

\* the last insert for key k, not invalidated since, has not expired at time t
C11_Live(k, t) == k \in DOMAIN latest /\ t <= latest[k].expires_at

C11_FoundExpired ==
    /\ C11_Looked
    /\ last_call[1].key \in DOMAIN last_call[1].before
    /\ last_call[1].at > last_call[1].before[last_call[1].key].expires_at

C11_LookupReturnsLiveEntry ==
    C11_Looked =>
        LET c == last_call[1]
        IN  /\ c.value = IF C11_Live(c.key, c.at)
                         THEN Some(latest[c.key].api_resource) ELSE None
            /\ C11_FoundExpired => c.value = None /\ c.key \notin DOMAIN dcache
            /\ c.value # None =>
                /\ c.key \in DOMAIN c.before
                /\ c.at <= c.before[c.key].expires_at
                /\ dcache = c.before
            \* the entries of the other keys are left alone
            /\ \A k \in CacheKeys \ {c.key} : MapGet(dcache, k) = MapGet(c.before, k)

C11_Witness ==
    /\ C11_FoundExpired /\ last_call[1].key = KeyPods
    /\ KeyPods \in DOMAIN latest /\ KeyPods \notin DOMAIN dcache
    /\ KeyDeployments \in DOMAIN dcache

----------------------------------------------------------------------------
(* Concurrent list_async calls on one cache key, at the grain of the lock:   *)
(* every acquisition of the RwLock around DISCOVERY_CACHE, the critical      *)
(* section up to the guard's drop, and the awaits between them.              *)

TaskIds == {"t1", "t2"}

\* where a task holds no guard and is inside a network await
NetworkPcs == {"discovery", "discovery_sleep", "list", "list_sleep"}

\* RwLock::read / RwLock::write succeed only when the lock allows it
CanRead(l) == l.writer = None
CanWrite(l) == l.writer = None /\ l.readers = {}
AcquireRead(l, t) == [l EXCEPT !.readers = @ \cup {t}]
AcquireWrite(l, t) == [l EXCEPT !.writer = Some(t)]

\* variant: the read guard outlives cache_lookup
DropReadGuard_Leaks(l, t) == l

\* the read guard goes out of scope: at a return inside its block, or at its end
DropReadGuard(l, t) == [l EXCEPT !.readers = @ \ {t}]
\* the write guard goes out of scope at the end of the function or statement
DropWriteGuard(l, t) == [l EXCEPT !.writer = None]

\* spared: cache_lookup, under its write guard, met an entry that was not expired
NewTask == [pc |-> "idle", phase |-> 1, now |-> 0, spared |-> FALSE]

InitLock ==
    /\ ListerIdle /\ now = 0
    /\ dcache \in {EmptyMap, MapSet(EmptyMap, KeyPods, cache_insert(ApiPodsV1, 0, 0))}
    /\ lock = [readers |-> {}, writer |-> None]
    /\ tasks = [t \in TaskIds |-> NewTask]
    /\ latest = EmptyMap /\ last_call = None
    /\ PlannerIdle /\ EngineIdle /\ PathIdle /\ CodecIdle /\ MaterialIdle /\ ParserIdle /\ RunIdle

\* task t moves to pc p
Goto(t, p) == tasks' = [tasks EXCEPT ![t].pc = p]

LockRest == <<listerRest, latest, last_call, plannerVars, engineVars, pathVars, codecVars, materialVars, parserVars, runVars>>

\* Instant::now() moves on
Tick == now < MaxNow /\ now' = now + 1 /\ UNCHANGED <<dcache, lock, tasks, LockRest>>

\* list_async up to cache_lookup's first line: let now = Instant::now()
TaskStart(t) ==
    /\ tasks[t].pc = "idle"
    /\ tasks' = [tasks EXCEPT ![t].pc = "lookup_read", ![t].now = now]
    /\ UNCHANGED <<now, dcache, lock, LockRest>>

\* cache_lookup: discovery_cache().read()
LookupAcquireRead(t) ==
    /\ tasks[t].pc = "lookup_read" /\ CanRead(lock)
    /\ lock' = AcquireRead(lock, t) /\ Goto(t, "lookup_reading")
    /\ UNCHANGED <<now, dcache, LockRest>>

\* cache_lookup: the block under the read guard
LookupRead(t) ==
    /\ tasks[t].pc = "lookup_reading"
    /\ lock' = DropReadGuard(lock, t)
    /\ LET entry == MapGet(dcache, KeyPods)
       IN  IF entry = None THEN Goto(t, "discovery")
           ELSE IF tasks[t].now <= entry[1].expires_at THEN Goto(t, "list")
           ELSE Goto(t, "lookup_write")
    /\ UNCHANGED <<now, dcache, LockRest>>

\* discovery_cache().write() in cache_lookup, cache_insert, invalidate_discovery_cache
TaskAcquireWrite(t) ==
    /\ tasks[t].pc \in {"lookup_write", "insert_write", "invalidate_write"} /\ CanWrite(lock)
    /\ lock' = AcquireWrite(lock, t)
    /\ Goto(t, CASE tasks[t].pc = "lookup_write" -> "lookup_writing"
                 [] tasks[t].pc = "insert_write" -> "inserting"
                 [] OTHER -> "invalidating")
    /\ UNCHANGED <<now, dcache, LockRest>>

\* variant: the entry found expired under the read guard is dropped unseen
LookupWrite_Unchecked(t) ==
    /\ tasks[t].pc = "lookup_writing"
    /\ dcache' = MapRemove(dcache, KeyPods)
    /\ lock' = DropWriteGuard(lock, t)
    /\ tasks' = [tasks EXCEPT ![t].pc = "discovery",
                              ![t].spared = LET entry == MapGet(dcache, KeyPods)
                                            IN  entry # None /\ now <= entry[1].expires_at]
    /\ UNCHANGED <<now, LockRest>>

\* cache_lookup under the write guard: drop the entry if it is still expired
LookupWrite(t) ==
    /\ tasks[t].pc = "lookup_writing"
    /\ dcache' = LET entry == MapGet(dcache, KeyPods)
                 IN  IF entry # None /\ now > entry[1].expires_at
                     THEN MapRemove(dcache, KeyPods) ELSE dcache
    /\ lock' = DropWriteGuard(lock, t)
    /\ tasks' = [tasks EXCEPT ![t].pc = "discovery",
                              ![t].spared = LET entry == MapGet(dcache, KeyPods)
                                            IN  entry # None /\ now <= entry[1].expires_at]
    /\ UNCHANGED <<now, LockRest>>

\* resolve_api_resource: an attempt of the discovery request, or the end of a backoff
Discovery(t) ==
    /\ tasks[t].pc \in {"discovery", "discovery_sleep"}
    /\ \E next \in IF tasks[t].pc = "discovery"
                   THEN {"discovery_sleep", "insert_write", "done"} ELSE {"discovery"} :
        Goto(t, next)
    /\ UNCHANGED <<now, dcache, lock, LockRest>>

\* cache_insert under the write guard
Insert(t) ==
    /\ tasks[t].pc = "inserting"
    /\ dcache' = MapSet(dcache, KeyPods, cache_insert(ApiPodsV1, DISCOVERY_CACHE_TTL, now))
    /\ lock' = DropWriteGuard(lock, t) /\ Goto(t, "list")
    /\ UNCHANGED <<now, LockRest>>

\* list_with_selector_fallback: an attempt of a page request, or the end of a backoff;
\* a stale resolution in the first phase leads to invalidate_discovery_cache
List(t) ==
    /\ tasks[t].pc \in {"list", "list_sleep"}
    /\ \E next \in IF tasks[t].pc = "list_sleep" THEN {"list"}
                   ELSE {"list", "list_sleep", "done"}
                            \cup (IF tasks[t].phase = 1 THEN {"invalidate_write"} ELSE {}) :
        Goto(t, next)
    /\ UNCHANGED <<now, dcache, lock, LockRest>>

\* invalidate_discovery_cache under the write guard, then the second resolution
Invalidate(t) ==
    /\ tasks[t].pc = "invalidating"
    /\ dcache' = MapSet(dcache, KeyPods, invalidate_discovery_cache(MapGet(dcache, KeyPods)))
    /\ lock' = DropWriteGuard(lock, t)
    /\ tasks' = [tasks EXCEPT ![t].pc = "lookup_read", ![t].phase = 2, ![t].now = now]
    /\ UNCHANGED <<now, LockRest>>

NextLock ==
    \/ Tick
    \/ \E t \in TaskIds :
        \/ TaskStart(t) \/ LookupAcquireRead(t) \/ LookupRead(t) \/ TaskAcquireWrite(t)
        \/ LookupWrite(t) \/ Discovery(t) \/ Insert(t) \/ List(t) \/ Invalidate(t)

SpecLock == InitLock /\ [][NextLock]_vars

----------------------------------------------------------------------------
(* C12: no task holds the discovery-cache lock, shared or exclusive, while   *)
(* its discovery or list request is in flight or while it sleeps for a retry *)
(* backoff: every acquisition in cache_lookup, cache_insert and              *)
(* invalidate_discovery_cache is released before control returns to the code *)
(* that makes network calls.                                                 *)

C12_Holds(t) == t \in lock.readers \/ lock.writer = Some(t)

C12_NoLockAcrossNetwork ==
    \A t \in TaskIds :
        /\ tasks[t].pc \in NetworkPcs => ~C12_Holds(t)
        /\ C12_Holds(t) =>
            tasks[t].pc \in {"lookup_reading", "lookup_writing", "inserting", "invalidating"}
        /\ lock.writer # None => lock.readers = {}

\* one task is in a request while the other holds the lock
C12_Witness ==
    /\ tasks["t1"].pc = "list" /\ tasks["t1"].phase = 2
    /\ tasks["t2"].pc = "lookup_writing" /\ lock.writer = Some("t2")

----------------------------------------------------------------------------
(* Pushdown planner (src/src/k8s/planner.rs) *)

\* str::strip_prefix
StripPrefix(s, prefix) ==
    IF Len(s) >= Len(prefix) /\ SubSeq(s, 1, Len(prefix)) = prefix
    THEN Some(SubSeq(s, Len(prefix) + 1, Len(s))) ELSE None

\* variant: '=' is let through
is_selector_value_safe_AllowsEquals(value) ==
    /\ value # <<>>
    /\ \A i \in 1..Len(value) : value[i] \notin {",", "!"} \cup Whitespace

is_selector_value_safe(value) ==
    /\ value # <<>>
    /\ ~Contains(value, <<",">>)
    /\ ~Contains(value, <<"=">>)
    /\ ~Contains(value, <<"!">>)
    /\ ~\E i \in 1..Len(value) : value[i] \in Whitespace

is_label_key_safe(key) ==
    /\ key # <<>>
    /\ ~Contains(key, <<",">>)
    /\ ~\E i \in 1..Len(key) : key[i] \in Whitespace

\* Ok(Field(selector)) / Ok(Label(selector)) / Err(reason), written Pushed and
\* Rejected
predicate_to_selector(predicate) ==
    LET \* selector_operator
        operator == IF predicate.op = "Eq" THEN <<"=">> ELSE <<"!", "=">>
        \* selector_value
        value == IF predicate.value.t = "String" THEN Some(predicate.value.v) ELSE None
        label_key == StripPrefix(predicate.path, <<"m", "e", "t", "a", "d", "a", "t", "a", ".", "l", "a", "b", "e", "l", "s", ".">>)
        Pushed(target, selector) == [tag |-> target, selector |-> selector, reason |-> ""]
        Rejected(reason) == [tag |-> "Err", selector |-> <<>>, reason |-> reason]
    IN  IF value = None THEN Rejected("NonStringValue")
        ELSE IF ~is_selector_value_safe(value[1]) THEN Rejected("UnsafeSelectorValue")
        ELSE IF \/ EqIgnoreAsciiCase(predicate.path, <<"m", "e", "t", "a", "d", "a", "t", "a", ".", "n", "a", "m", "e">>)
                \/ EqIgnoreAsciiCase(predicate.path, <<"m", "e", "t", "a", "d", "a", "t", "a", ".", "n", "a", "m", "e", "s", "p", "a", "c", "e">>)
        THEN Pushed("Field", predicate.path \o operator \o value[1])
        ELSE IF label_key # None
        THEN (IF ~is_label_key_safe(label_key[1]) THEN Rejected("UnsafeLabelKey")
              ELSE Pushed("Label", label_key[1] \o operator \o value[1]))
        ELSE Rejected("UnsupportedPath")

\* variant: no parts give an empty selector string
join_selector_parts_EmptyString(parts) == Some(Join(parts, <<",">>))

join_selector_parts(parts) == IF parts = <<>> THEN None ELSE Some(Join(parts, <<",">>))

plan_pushdown(preds) ==
    LET targets == [i \in 1..Len(preds) |->
                        [at |-> i, target |-> predicate_to_selector(preds[i])]]
        Pushed(kind) ==
            LET kept == SelectSeq(targets, LAMBDA x : x.target.tag = kind)
            IN  [i \in 1..Len(kept) |-> kept[i].target.selector]
        failed == SelectSeq(targets, LAMBDA x : x.target.tag = "Err")
    IN  [options |-> [field_selector |-> join_selector_parts(Pushed("Field")),
                      label_selector |-> join_selector_parts(Pushed("Label"))],
         diagnostics |-> [i \in 1..Len(failed) |->
                            [path |-> preds[failed[i].at].path, op |-> preds[failed[i].at].op,
                             reason |-> failed[i].target.reason]]]

\* parser::Predicate
Predicate(path, op, value) == [path |-> path, op |-> op, value |-> value]

\* how many predicates a query has at most
MaxPredicates == 2

PredicateSamples ==
    {Predicate(<<"m", "e", "t", "a", "d", "a", "t", "a", ".", "n", "a", "m", "e">>, "Eq", Json("String", <<"p", "o", "d", "-", "a">>)),
     Predicate(<<"M", "e", "t", "a", "d", "a", "t", "a", ".", "N", "a", "m", "e">>, "Ne", Json("String", <<"x">>)),
     Predicate(<<"m", "e", "t", "a", "d", "a", "t", "a", ".", "n", "a", "m", "e", "s", "p", "a", "c", "e">>, "Ne", Json("String", <<"n", "s">>)),
     Predicate(<<"m", "e", "t", "a", "d", "a", "t", "a", ".", "l", "a", "b", "e", "l", "s", ".", "a", "p", "p">>, "Eq", Json("String", <<"a", "p", "i">>)),
     Predicate(<<"m", "e", "t", "a", "d", "a", "t", "a", ".", "l", "a", "b", "e", "l", "s", ".", "t", "i", "e", "r">>, "Ne", Json("String", <<"b">>)),
     Predicate(<<"m", "e", "t", "a", "d", "a", "t", "a", ".", "l", "a", "b", "e", "l", "s", ".", "a", "=", "b">>, "Eq", Json("String", <<"c">>)),
     Predicate(<<"m", "e", "t", "a", "d", "a", "t", "a", ".", "l", "a", "b", "e", "l", "s", ".">>, "Eq", Json("String", <<"x">>)),
     Predicate(<<"m", "e", "t", "a", "d", "a", "t", "a", ".", "l", "a", "b", "e", "l", "s", ".", "b", "a", "d", ",", "k", "e", "y">>, "Eq", Json("String", <<"o", "k">>)),
     Predicate(<<"m", "e", "t", "a", "d", "a", "t", "a", ".", "l", "a", "b", "e", "l", "s", ".", "a", " ", "b">>, "Ne", Json("String", <<"o", "k">>)),
     Predicate(<<"m", "e", "t", "a", "d", "a", "t", "a", ".", "n", "a", "m", "e">>, "Eq", Json("String", <<"p", "o", "d", ",", "a">>)),
     Predicate(<<"m", "e", "t", "a", "d", "a", "t", "a", ".", "n", "a", "m", "e">>, "Ne", Json("String", <<>>)),
     Predicate(<<"m", "e", "t", "a", "d", "a", "t", "a", ".", "n", "a", "m", "e", "s", "p", "a", "c", "e">>, "Eq", Json("String", <<"a", "=", "b">>)),
     Predicate(<<"m", "e", "t", "a", "d", "a", "t", "a", ".", "l", "a", "b", "e", "l", "s", ".", "a", "p", "p">>, "Eq", Json("String", <<"a", "!", "b">>)),
     Predicate(<<"m", "e", "t", "a", "d", "a", "t", "a", ".", "l", "a", "b", "e", "l", "s", ".", "a", "p", "p">>, "Eq", Json("String", <<"a", " ", "b">>)),
     Predicate(<<"s", "p", "e", "c", ".", "r", "e", "p", "l", "i", "c", "a", "s">>, "Eq", Json("Number", [k |-> "PosInt", n |-> 3, d |-> 1])),
     Predicate(<<"m", "e", "t", "a", "d", "a", "t", "a", ".", "n", "a", "m", "e">>, "Eq", Json("Bool", TRUE)),
     Predicate(<<"s", "p", "e", "c", ".", "n", "o", "d", "e", "N", "a", "m", "e">>, "Eq", Json("String", <<"w", "o", "r", "k", "e", "r", "-", "a">>)),
     Predicate(<<"s", "p", "e", "c", ".", "n", "o", "d", "e", "N", "a", "m", "e">>, "Eq", Json("String", <<"a", ",", "b">>)),
     Predicate(<<"m", "e", "t", "a", "d", "a", "t", "a", ".", "l", "a", "b", "e", "l", "s">>, "Eq", Json("String", <<"x">>)),
     Predicate(<<"M", "e", "t", "a", "d", "a", "t", "a", ".", "L", "a", "b", "e", "l", "s", ".", "a", "p", "p">>, "Eq", Json("String", <<"a", "p", "i">>))}

InitPlanner ==
    /\ ListerIdle /\ now = 0 /\ CacheIdle /\ EngineIdle /\ PathIdle /\ CodecIdle /\ MaterialIdle /\ ParserIdle /\ RunIdle
    /\ predicates \in UNION {[1..n -> PredicateSamples] : n \in 0..MaxPredicates}
    /\ plan = None

PlanPushdown ==
    /\ plan = None
    /\ plan' = Some(plan_pushdown(predicates))
    /\ UNCHANGED <<listerVars, cacheVars, predicates, engineVars, pathVars, codecVars, materialVars, parserVars, runVars>>

NextPlanner == PlanPushdown

SpecPlanner == InitPlanner /\ [][NextPlanner]_vars

----------------------------------------------------------------------------
(* C13: every comma-separated fragment of the selector strings plan_pushdown *)
(* produces comes from a predicate whose value is a non-empty string without *)
(* ',', '=', '!' or whitespace; a field-selector fragment's key is a path     *)
(* equal, ignoring ASCII case, to metadata.name or metadata.namespace; a      *)
(* label-selector fragment's key is the non-empty suffix after                *)
(* 'metadata.labels.', without ',' or whitespace; no predicate on another     *)
(* path contributes a fragment.                                               *)

C13_Fragments(selector) == IF selector = None THEN <<>> ELSE Split(selector[1], ",")

C13_SafeValue(value) ==
    /\ value.t = "String" /\ Len(value.v) > 0
    /\ \A i \in 1..Len(value.v) : value.v[i] \notin {",", "=", "!", " ", "\t", "\n"}

C13_OpText(op) == IF op = "Eq" THEN <<"=">> ELSE <<"!", "=">>

C13_FieldPath(path) ==
    ToAsciiLowercase(path) \in {<<"m", "e", "t", "a", "d", "a", "t", "a", ".", "n", "a", "m", "e">>, <<"m", "e", "t", "a", "d", "a", "t", "a", ".", "n", "a", "m", "e", "s", "p", "a", "c", "e">>}

C13_LabelKey(path, key) ==
    /\ path = <<"m", "e", "t", "a", "d", "a", "t", "a", ".", "l", "a", "b", "e", "l", "s", ".">> \o key /\ Len(key) > 0
    /\ \A i \in 1..Len(key) : key[i] \notin {",", " ", "\t", "\n"}

\* the predicates that may contribute a fragment, by the claim's conditions
C13_Pushable ==
    {i \in 1..Len(predicates) :
        /\ C13_SafeValue(predicates[i].value)
        /\ \/ C13_FieldPath(predicates[i].path)
           \/ \E n \in 1..Len(predicates[i].path) :
                C13_LabelKey(predicates[i].path,
                             SubSeq(predicates[i].path, n, Len(predicates[i].path)))}

C13_SelectorsAreSafe ==
    plan # None =>
        LET field == C13_Fragments(plan[1].options.field_selector)
            label == C13_Fragments(plan[1].options.label_selector)
        IN  /\ \A f \in 1..Len(field) : \E i \in 1..Len(predicates) :
                /\ C13_SafeValue(predicates[i].value) /\ C13_FieldPath(predicates[i].path)
                /\ field[f] = predicates[i].path \o C13_OpText(predicates[i].op)
                                \o predicates[i].value.v
            /\ \A f \in 1..Len(label) : \E i \in 1..Len(predicates), n \in 1..Len(label[f]) :
                /\ C13_SafeValue(predicates[i].value)
                /\ C13_LabelKey(predicates[i].path, SubSeq(label[f], 1, n))
                /\ label[f] = SubSeq(label[f], 1, n) \o C13_OpText(predicates[i].op)
                                \o predicates[i].value.v
            /\ Len(field) + Len(label) <= Cardinality(C13_Pushable)

C13_Witness ==
    /\ plan # None /\ Len(predicates) = 2
    /\ plan[1].options.field_selector = Some(<<"M", "e", "t", "a", "d", "a", "t", "a", ".", "N", "a", "m", "e", "!", "=", "x">>)
    /\ plan[1].options.label_selector = Some(<<"a", "=", "b", "=", "c">>)

----------------------------------------------------------------------------
(* C14: plan_pushdown turns every predicate into exactly one of: one field-  *)
(* selector fragment, one label-selector fragment, or one diagnostic with    *)
(* the predicate's path, operator and a reason; fragments and diagnostics    *)
(* keep the order of the predicates, their counts sum to the number of       *)
(* predicates, and field_selector / label_selector are absent, never an      *)
(* empty string, when they have no fragment.                                 *)

C14_Reasons ==
    {"UnsupportedPath", "UnsupportedOperator", "NonStringValue", "UnsafeSelectorValue",
     "UnsafeLabelKey"}

\* the predicates a classification sends to one output, in their order
C14_Sent(classes, kind) ==
    SelectSeq([i \in 1..Len(predicates) |-> i], LAMBDA i : classes[i] = kind)

C14_Selector(selector, from, key_of(_)) ==
    /\ selector = None <=> from = <<>>
    /\ selector # None =>
        /\ selector[1] # <<>>
        /\ Len(Split(selector[1], ",")) = Len(from)
        /\ \A f \in 1..Len(from) :
            /\ key_of(predicates[from[f]].path) # None
            /\ predicates[from[f]].value.t = "String"
            /\ Split(selector[1], ",")[f] =
                    key_of(predicates[from[f]].path)[1]
                        \o (IF predicates[from[f]].op = "Eq" THEN <<"=">> ELSE <<"!", "=">>)
                        \o predicates[from[f]].value.v

C14_OnePlaceEach ==
    plan # None =>
        \E classes \in [1..Len(predicates) -> {"Field", "Label", "Diagnostic"}] :
            LET diag == C14_Sent(classes, "Diagnostic")
            IN  /\ C14_Selector(plan[1].options.field_selector, C14_Sent(classes, "Field"),
                                LAMBDA path : Some(path))
                /\ C14_Selector(plan[1].options.label_selector, C14_Sent(classes, "Label"),
                                LAMBDA path : StripPrefix(path, <<"m", "e", "t", "a", "d", "a", "t", "a", ".", "l", "a", "b", "e", "l", "s", ".">>))
                /\ Len(plan[1].diagnostics) = Len(diag)
                /\ \A d \in 1..Len(diag) :
                    /\ plan[1].diagnostics[d].path = predicates[diag[d]].path
                    /\ plan[1].diagnostics[d].op = predicates[diag[d]].op
                    /\ plan[1].diagnostics[d].reason \in C14_Reasons
                /\ Len(C13_Fragments(plan[1].options.field_selector))
                    + Len(C13_Fragments(plan[1].options.label_selector))
                    + Len(plan[1].diagnostics) = Len(predicates)

C14_Witness ==
    /\ plan # None /\ Len(predicates) = 2
    /\ plan[1].options.field_selector = None
    /\ plan[1].options.label_selector = Some(<<"t", "i", "e", "r", "!", "=", "b">>)
    /\ plan[1].diagnostics =
        <<[path |-> <<"m", "e", "t", "a", "d", "a", "t", "a", ".", "l", "a", "b", "e", "l", "s", ".", "b", "a", "d", ",", "k", "e", "y">>, op |-> "Eq", reason |-> "UnsafeLabelKey"]>>
    /\ predicates[2].op = "Ne"

----------------------------------------------------------------------------
(* Engine (src/src/engine/mod.rs): numbers *)

\* stands for the 64 bits of i64 and u64; i128 has twice as many
IntBits == 4

I64_MAX == 2 ^ (IntBits - 1) - 1
I64_MIN == 0 - 2 ^ (IntBits - 1)
U64_MAX == 2 ^ IntBits - 1
I128_MAX == 2 ^ (2 * IntBits - 1) - 1
I128_MIN == 0 - 2 ^ (2 * IntBits - 1)

RECURSIVE Gcd(_, _)
Gcd(a, b) == IF b = 0 THEN a ELSE Gcd(b, a % b)

\* serde_json::Number: PosInt(u64), NegInt(i64) or Float(f64).  A float is the
\* fraction n / d in lowest terms: the model's floats are small dyadic numbers,
\* which f64 holds and adds exactly
PosInt(n) == [k |-> "PosInt", n |-> n, d |-> 1]
NegInt(n) == [k |-> "NegInt", n |-> n, d |-> 1]
Float(n, d) ==
    LET g == Gcd(IF n < 0 THEN 0 - n ELSE n, d)
    IN  [k |-> "Float", n |-> n \div g, d |-> d \div g]

\* Value::from(i64), Value::from(u64)
NumberFrom(n) == Json("Number", IF n < 0 THEN NegInt(n) ELSE PosInt(n))

\* Number::as_i64, Number::as_u64
as_i64(number) ==
    IF number.k = "NegInt" \/ (number.k = "PosInt" /\ number.n <= I64_MAX)
    THEN Some(number.n) ELSE None
as_u64(number) == IF number.k = "PosInt" THEN Some(number.n) ELSE None

\* f64::partial_cmp on Number::as_f64 of both
CmpF64(left, right) == Cmp(left.n * right.d, right.n * left.d)

----------------------------------------------------------------------------
(* Engine: evaluate *)

\* variant: a value that cannot be compared counts as different
comparable_eq_MismatchIsDifferent(actual, expected) ==
    IF actual.t = expected.t /\ actual.t \in {"String", "Number", "Bool"}
    THEN Some(actual.v = expected.v) ELSE Some(FALSE)

comparable_eq(actual, expected) ==
    IF actual.t = "String" /\ expected.t = "String" THEN Some(actual.v = expected.v)
    ELSE IF actual.t = "Number" /\ expected.t = "Number" THEN Some(actual.v = expected.v)
    ELSE IF actual.t = "Bool" /\ expected.t = "Bool" THEN Some(actual.v = expected.v)
    ELSE None

matches_all(object, preds) ==
    \A i \in 1..Len(preds) :
        LET stored == get(object, preds[i].path)
            value == IF stored = None THEN None ELSE comparable_eq(stored[1], preds[i].value)
        IN  IF preds[i].op = "Eq" THEN value = Some(TRUE) ELSE value = Some(FALSE)

evaluate(p, objs) == SelectSeq(objs, LAMBDA object : matches_all(object, p.predicates))

\* QueryPlan
QueryPlan(preds, selection, sort_keys) ==
    [predicates |-> preds, selection |-> selection, sort_keys |-> sort_keys]

\* DynamicObject { fields }
DynamicObject(flds) == [fields |-> flds]

\* how many objects the engine is given at most
MaxObjects == 3

ObjectLists(samples) == UNION {[1..n -> samples] : n \in 0..MaxObjects}

FilterObjects ==
    {DynamicObject(<<"m", "e", "t", "a", "d", "a", "t", "a", ".", "n", "a", "m", "e", "s", "p", "a", "c", "e">> :> Json("String", <<"d", "e", "f", "a", "u", "l", "t">>)
                    @@ <<"s", "p", "e", "c", ".", "r", "e", "p", "l", "i", "c", "a", "s">> :> NumberFrom(2)),
     DynamicObject(<<"m", "e", "t", "a", "d", "a", "t", "a", ".", "n", "a", "m", "e", "s", "p", "a", "c", "e">> :> Json("String", <<"k", "u", "b", "e", "-", "s", "y", "s", "t", "e", "m">>)
                    @@ <<"s", "p", "e", "c", ".", "r", "e", "p", "l", "i", "c", "a", "s">> :> Json("Null", <<>>)),
     DynamicObject(<<"s", "p", "e", "c", ".", "r", "e", "p", "l", "i", "c", "a", "s">> :> Json("String", <<"2">>)
                    @@ <<"m", "e", "t", "a", "d", "a", "t", "a", ".", "l", "a", "b", "e", "l", "s", ".", "a", "%", "2", "E", "b">> :> Json("String", <<"x">>)),
     DynamicObject(<<"s", "p", "e", "c", ".", "r", "e", "p", "l", "i", "c", "a", "s">> :> Json("Bool", TRUE)),
     DynamicObject(<<"s", "p", "e", "c", ".", "r", "e", "p", "l", "i", "c", "a", "s">> :> Json("Number", Float(2, 1))
                    @@ <<"m", "e", "t", "a", "d", "a", "t", "a", ".", "n", "a", "m", "e", "s", "p", "a", "c", "e">> :> Json("Array", <<Json("String", <<"d", "e", "f", "a", "u", "l", "t">>)>>))}

FilterPredicates ==
    {Predicate(path, op, value) :
        path \in {<<"s", "p", "e", "c", ".", "r", "e", "p", "l", "i", "c", "a", "s">>, <<"m", "e", "t", "a", "d", "a", "t", "a", ".", "n", "a", "m", "e", "s", "p", "a", "c", "e">>, <<"s", "p", "e", "c", ".", "n", "o", "d", "e", "N", "a", "m", "e">>,
                  <<"m", "e", "t", "a", "d", "a", "t", "a", ".", "l", "a", "b", "e", "l", "s", ".", "a", ".", "b">>},
        op \in {"Eq", "Ne"},
        value \in {Json("String", <<"2">>), Json("String", <<"d", "e", "f", "a", "u", "l", "t">>), Json("String", <<"x">>),
                   NumberFrom(2), Json("Bool", TRUE), Json("Null", <<>>),
                   Json("Array", <<Json("String", <<"d", "e", "f", "a", "u", "l", "t">>)>>)}}

FilterPlans ==
    {QueryPlan(preds, None, None) :
        preds \in {<<>>} \cup {<<p>> : p \in FilterPredicates}
                  \cup {<<p, q>> : p, q \in {x \in FilterPredicates :
                                        /\ x.path \in {<<"s", "p", "e", "c", ".", "r", "e", "p", "l", "i", "c", "a", "s">>, <<"m", "e", "t", "a", "d", "a", "t", "a", ".", "n", "a", "m", "e", "s", "p", "a", "c", "e">>}
                                        /\ x.value \in {NumberFrom(2), Json("String", <<"d", "e", "f", "a", "u", "l", "t">>)}}}}

InitFilter ==
    /\ ListerIdle /\ now = 0 /\ CacheIdle /\ PlannerIdle /\ PathIdle /\ CodecIdle /\ MaterialIdle /\ ParserIdle /\ RunIdle
    /\ objects \in ObjectLists(FilterObjects)
    /\ query \in FilterPlans
    /\ output = None

Evaluate ==
    /\ output = None
    /\ output' = Some(evaluate(query, objects))
    /\ UNCHANGED <<listerVars, cacheVars, plannerVars, objects, query, pathVars, codecVars, materialVars, parserVars, runVars>>

SpecFilter == InitFilter /\ [][Evaluate]_vars

----------------------------------------------------------------------------
(* C15: evaluate keeps an object iff every predicate of the plan matches it; *)
(* a predicate whose path is missing from the object, whose stored value is  *)
(* null, or whose stored value's type differs from the literal's (string /   *)
(* number / bool) matches under neither Eq nor Ne, so both the Eq query and  *)
(* the Ne query exclude the object.                                          *)

\* the predicate can be decided on the object: a stored, non-null value of the
\* literal's type, which is string, number or bool
C15_Determinate(object, predicate) ==
    /\ get(object, predicate.path) # None
    /\ get(object, predicate.path)[1].t # "Null"
    /\ get(object, predicate.path)[1].t = predicate.value.t
    /\ predicate.value.t \in {"String", "Number", "Bool"}

C15_Matches(object, predicate) ==
    /\ C15_Determinate(object, predicate)
    /\ (predicate.op = "Eq") <=> (get(object, predicate.path)[1].v = predicate.value.v)

C15_KeepsMatching ==
    output # None =>
        output[1] = SelectSeq(objects, LAMBDA object :
                        \A i \in 1..Len(query.predicates) :
                            C15_Matches(object, query.predicates[i]))

C15_Witness ==
    /\ Len(objects) = 3 /\ output = Some(<<objects[2]>>)
    /\ Len(query.predicates) = 1 /\ query.predicates[1].op = "Ne"
    /\ query.predicates[1].path = <<"m", "e", "t", "a", "d", "a", "t", "a", ".", "l", "a", "b", "e", "l", "s", ".", "a", ".", "b">>
    /\ ~C15_Determinate(objects[1], query.predicates[1])
    /\ get(objects[3], <<"s", "p", "e", "c", ".", "r", "e", "p", "l", "i", "c", "a", "s">>) = Some(Json("Null", <<>>))

----------------------------------------------------------------------------
(* Engine: sort_objects *)

\* EngineSortKey
EngineSortKey(path, direction) == [path |-> path, direction |-> direction]

to_sort_value(value) ==
    IF value = None \/ value[1].t = "Null" THEN "Nullish" ELSE "Concrete"

value_rank(value) ==
    CASE value.t = "Bool" -> 0
      [] value.t = "Number" -> 1
      [] value.t = "String" -> 2
      [] OTHER -> 3

\* as_f64 of an integer is taken to be exact
compare_numbers(left, right) ==
    IF as_i64(left) # None /\ as_i64(right) # None THEN Cmp(as_i64(left)[1], as_i64(right)[1])
    ELSE IF as_u64(left) # None /\ as_u64(right) # None THEN Cmp(as_u64(left)[1], as_u64(right)[1])
    ELSE CmpF64(left, right)

compare_same_rank(left, right) ==
    IF left.t = "Bool" /\ right.t = "Bool"
    THEN Cmp(IF left.v THEN 1 ELSE 0, IF right.v THEN 1 ELSE 0)
    ELSE IF left.t = "Number" /\ right.t = "Number" THEN compare_numbers(left.v, right.v)
    ELSE IF left.t = "String" /\ right.t = "String" THEN StrCmp(left.v, right.v)
    ELSE "Equal"

compare_non_null_values(left, right, direction) ==
    LET by_rank == Cmp(value_rank(left), value_rank(right))
        ordering == IF by_rank = "Equal" THEN compare_same_rank(left, right) ELSE by_rank
    IN  IF direction = "Asc" THEN ordering ELSE Reverse(ordering)

\* variant: missing and null values come first whatever the direction
compare_values_NullishFirst(left, right, direction) ==
    IF to_sort_value(left) = "Nullish" /\ to_sort_value(right) = "Nullish" THEN "Equal"
    ELSE IF to_sort_value(left) = "Nullish" THEN "Less"
    ELSE IF to_sort_value(right) = "Nullish" THEN "Greater"
    ELSE compare_non_null_values(left[1], right[1], direction)

compare_values(left, right, direction) ==
    IF to_sort_value(left) = "Nullish" /\ to_sort_value(right) = "Nullish" THEN "Equal"
    ELSE IF to_sort_value(left) = "Nullish"
         THEN (IF direction = "Asc" THEN "Less" ELSE "Greater")
    ELSE IF to_sort_value(right) = "Nullish"
         THEN (IF direction = "Asc" THEN "Greater" ELSE "Less")
    ELSE compare_non_null_values(left[1], right[1], direction)

compare_objects(left, right, sort_keys) ==
    LET ordering(i) == compare_values(get(left, sort_keys[i].path),
                                      get(right, sort_keys[i].path), sort_keys[i].direction)
        decided == {i \in 1..Len(sort_keys) : ordering(i) # "Equal"}
    IN  IF decided = {} THEN "Equal"
        ELSE ordering(CHOOSE i \in decided : \A j \in decided : i <= j)

\* variant: the object goes before the objects that compare equal to it
SortInsert_BeforeEqual(sorted, object, sort_keys) ==
    LET later == {i \in 1..Len(sorted) : compare_objects(sorted[i], object, sort_keys) # "Less"}
        at == IF later = {} THEN Len(sorted) + 1 ELSE CHOOSE i \in later : \A j \in later : i <= j
    IN  SubSeq(sorted, 1, at - 1) \o <<object>> \o SubSeq(sorted, at, Len(sorted))

\* slice::sort_by is a stable sort: each object in turn goes after the objects
\* before it that do not compare greater
SortInsert(sorted, object, sort_keys) ==
    LET later == {i \in 1..Len(sorted) : compare_objects(sorted[i], object, sort_keys) = "Greater"}
        at == IF later = {} THEN Len(sorted) + 1 ELSE CHOOSE i \in later : \A j \in later : i <= j
    IN  SubSeq(sorted, 1, at - 1) \o <<object>> \o SubSeq(sorted, at, Len(sorted))

RECURSIVE sort_by(_, _)
sort_by(objs, sort_keys) ==
    IF objs = <<>> THEN <<>>
    ELSE SortInsert(sort_by(SubSeq(objs, 1, Len(objs) - 1), sort_keys), objs[Len(objs)], sort_keys)

sort_objects(p, objs) ==
    IF p.sort_keys = None THEN objs ELSE sort_by(objs, p.sort_keys[1])

SortObjects ==
    {DynamicObject(<<"i", "d">> :> NumberFrom(1)),
     DynamicObject(<<"a">> :> Json("Null", <<>>) @@ <<"b">> :> NumberFrom(1)),
     DynamicObject(<<"a">> :> Json("Bool", FALSE) @@ <<"b">> :> Json("String", <<"x">>)),
     DynamicObject(<<"a">> :> Json("Bool", TRUE) @@ <<"b">> :> NumberFrom(1)),
     DynamicObject(<<"a">> :> NumberFrom(0 - 1) @@ <<"b">> :> NumberFrom(2)),
     DynamicObject(<<"a">> :> Json("Number", Float(3, 2)) @@ <<"b">> :> NumberFrom(1)),
     DynamicObject(<<"a">> :> NumberFrom(2) @@ <<"b">> :> NumberFrom(2) @@ <<"i", "d">> :> NumberFrom(1)),
     DynamicObject(<<"a">> :> NumberFrom(2) @@ <<"b">> :> NumberFrom(2) @@ <<"i", "d">> :> NumberFrom(2)),
     DynamicObject(<<"a">> :> NumberFrom(2) @@ <<"b">> :> NumberFrom(1)),
     DynamicObject(<<"a">> :> NumberFrom(I64_MAX + 2) @@ <<"b">> :> Json("Null", <<>>)),
     DynamicObject(<<"a">> :> Json("String", <<"a", "b">>) @@ <<"b">> :> NumberFrom(1)),
     DynamicObject(<<"a">> :> Json("String", <<"b">>) @@ <<"b">> :> NumberFrom(2)),
     DynamicObject(<<"a">> :> Json("Array", <<NumberFrom(1)>>) @@ <<"b">> :> NumberFrom(2)),
     DynamicObject(<<"a">> :> Json("Object", <<"k">> :> NumberFrom(0)) @@ <<"b">> :> NumberFrom(1))}

SortPlans ==
    {QueryPlan(<<>>, None, sort_keys) :
        sort_keys \in {None, Some(<<>>),
                       Some(<<EngineSortKey(<<"a">>, "Asc")>>),
                       Some(<<EngineSortKey(<<"a">>, "Desc")>>),
                       Some(<<EngineSortKey(<<"a">>, "Asc"), EngineSortKey(<<"b">>, "Desc")>>)}}

InitSort ==
    /\ ListerIdle /\ now = 0 /\ CacheIdle /\ PlannerIdle /\ PathIdle /\ CodecIdle /\ MaterialIdle /\ ParserIdle /\ RunIdle
    /\ objects \in ObjectLists(SortObjects)
    /\ query \in SortPlans
    /\ output = None

Sort ==
    /\ output = None
    /\ output' = Some(sort_objects(query, objects))
    /\ UNCHANGED <<listerVars, cacheVars, plannerVars, objects, query, pathVars, codecVars, materialVars, parserVars, runVars>>

SpecSort == InitSort /\ [][Sort]_vars

----------------------------------------------------------------------------
(* C16: sort_objects returns a permutation of its input; two objects that    *)
(* compare equal on every sort key keep their relative input order; the keys *)
(* are applied in the order given, a later key only breaking ties of the     *)
(* earlier ones; with no sort keys the output is the input sequence.         *)

C16_Keys == IF query.sort_keys = None THEN <<>> ELSE query.sort_keys[1]

\* how the k-th key orders two objects
C16_ByKey(left, right, k) ==
    compare_values(get(left, C16_Keys[k].path), get(right, C16_Keys[k].path),
                   C16_Keys[k].direction)

C16_Tied(left, right) == \A k \in 1..Len(C16_Keys) : C16_ByKey(left, right, k) = "Equal"

\* the first key that tells the two objects apart puts left first
C16_InOrder(left, right) ==
    \/ C16_Tied(left, right)
    \/ \E k \in 1..Len(C16_Keys) :
          /\ C16_ByKey(left, right, k) = "Less"
          /\ \A j \in 1..(k - 1) : C16_ByKey(left, right, j) = "Equal"

\* the objects of a sequence that are tied with the given one, in their order
C16_TiedWith(objs, object) == SelectSeq(objs, LAMBDA other : C16_Tied(object, other))

Range(s) == {s[i] : i \in 1..Len(s)}

----------------------------------------------------------------------------
(* C17: under a single sort key, objects whose value is missing or null come *)
(* before every object with a concrete value in Asc and after all of them in *)
(* Desc; concrete values are in Asc ordered by type rank bool < number <     *)
(* string < other (arrays and objects, equal among themselves), then by      *)
(* natural order within the rank; Desc is the exact reverse of Asc for every *)
(* pair of values.                                                           *)

\* where the claim puts a value in Asc: missing or null first, then by type
C17_Class(value) ==
    IF value = None \/ value[1].t = "Null" THEN 0
    ELSE CASE value[1].t = "Bool" -> 1
           [] value[1].t = "Number" -> 2
           [] value[1].t = "String" -> 3
           [] OTHER -> 4

\* the claim's Asc order: left is strictly before right
C17_AscBefore(left, right) ==
    \/ C17_Class(left) < C17_Class(right)
    \/ /\ C17_Class(left) = C17_Class(right)
       /\ CASE C17_Class(left) = 1 -> ~left[1].v /\ right[1].v
            [] C17_Class(left) = 2 -> left[1].v.n * right[1].v.d < right[1].v.n * left[1].v.d
            [] C17_Class(left) = 3 -> StrCmp(left[1].v, right[1].v) = "Less"
            [] OTHER -> FALSE

C17_Value(object) == get(object, query.sort_keys[1][1].path)

----------------------------------------------------------------------------
(* Engine: aggregate *)

\* EngineAggregationExpr; function is a variant of EngineAggregationFunction
EngineAggregationExpr(function, path) == [function |-> function, path |-> path]

\* EngineError::InvalidAggregation, EngineError::IncompatibleAggregationTypes
InvalidAggregation(function, path, expected, actual) ==
    [kind |-> "InvalidAggregation", function |-> function, path |-> path,
     expected |-> expected, actual |-> actual]
IncompatibleAggregationTypes(function, path, left, right) ==
    [kind |-> "IncompatibleAggregationTypes", function |-> function, path |-> path,
     left |-> left, right |-> right]

aggregation_function_name(function) ==
    CASE function = "Count" -> <<"c", "o", "u", "n", "t">>
      [] function = "Sum" -> <<"s", "u", "m">>
      [] function = "Min" -> <<"m", "i", "n">>
      [] function = "Max" -> <<"m", "a", "x">>
      [] function = "Avg" -> <<"a", "v", "g">>

aggregation_key(expression) ==
    aggregation_function_name(expression.function) \o <<"(">>
        \o (IF expression.path = None THEN <<"*">> ELSE expression.path[1]) \o <<")">>

value_type_name(value) ==
    CASE value.t = "Null" -> "null"
      [] value.t = "Bool" -> "bool"
      [] value.t = "Number" -> "number"
      [] value.t = "String" -> "string"
      [] value.t = "Array" -> "array"
      [] value.t = "Object" -> "object"

\* NumericValue::Int(i128) is an integer, NumericValue::Float(f64) a fraction
numeric_from_json(value) ==
    IF value.t # "Number" THEN None
    ELSE IF as_i64(value.v) # None THEN Some([int |-> TRUE, n |-> as_i64(value.v)[1], d |-> 1])
    ELSE IF as_u64(value.v) # None THEN Some([int |-> TRUE, n |-> as_u64(value.v)[1], d |-> 1])
    ELSE Some([int |-> FALSE, n |-> value.v.n, d |-> value.v.d])

integer_to_json_number(function, path, value) ==
    IF value >= I64_MIN /\ value <= I64_MAX THEN Ok(NumberFrom(value))
    ELSE IF value >= 0 /\ value <= U64_MAX THEN Ok(NumberFrom(value))
    ELSE Err(InvalidAggregation(function, path, "representable JSON integer", "out of range"))

\* variant: a stored null is counted
count_aggregation_CountsNull(path, objs) ==
    Ok(NumberFrom(IF path = None THEN Len(objs)
                  ELSE Cardinality({i \in 1..Len(objs) : get(objs[i], path[1]) # None})))

count_aggregation(path, objs) ==
    Ok(NumberFrom(IF path = None THEN Len(objs)
                  ELSE Cardinality({i \in 1..Len(objs) :
                                      /\ get(objs[i], path[1]) # None
                                      /\ get(objs[i], path[1])[1].t # "Null"})))

\* the loop of sum_aggregation and of avg_aggregation over the objects from the
\* i-th on; acc holds total_i128, total_f64 (a fraction n / d), use_float and
\* count (has_value is count > 0)
RECURSIVE Accumulate(_, _, _, _, _)
Accumulate(function, path, objs, i, acc) ==
    IF i > Len(objs) THEN Ok(acc)
    ELSE LET value == get(objs[i], path)
         IN  IF value = None \/ value[1].t = "Null"
             THEN Accumulate(function, path, objs, i + 1, acc)
             ELSE LET number == numeric_from_json(value[1])
                  IN  IF number = None
                      THEN Err(InvalidAggregation(function, path, "number",
                                                  value_type_name(value[1])))
                      ELSE IF number[1].int /\ ~acc.use_float
                      THEN IF acc.total_i128 + number[1].n > I128_MAX
                              \/ acc.total_i128 + number[1].n < I128_MIN
                           THEN Err(InvalidAggregation(function, path,
                                                       "representable integer sum", "overflow"))
                           ELSE Accumulate(function, path, objs, i + 1,
                                    [acc EXCEPT !.total_i128 = @ + number[1].n,
                                                !.count = @ + 1])
                      ELSE LET from == IF acc.use_float THEN acc.total_f64
                                       ELSE [n |-> acc.total_i128, d |-> 1]
                           IN  Accumulate(function, path, objs, i + 1,
                                    [acc EXCEPT !.total_f64 =
                                                    [n |-> from.n * number[1].d
                                                            + number[1].n * from.d,
                                                     d |-> from.d * number[1].d],
                                                !.use_float = @ \/ ~number[1].int,
                                                !.count = @ + 1])

NoTotal == [total_i128 |-> 0, total_f64 |-> [n |-> 0, d |-> 1], use_float |-> FALSE, count |-> 0]

\* the sums of the model's floats are finite, so Number::from_f64 gives a number
sum_aggregation(path, objs) ==
    LET done == Accumulate(<<"s", "u", "m">>, path, objs, 1, NoTotal)
    IN  IF ~done.ok THEN done
        ELSE IF done.v.count = 0 THEN Ok(NumberFrom(0))
        ELSE IF ~done.v.use_float THEN integer_to_json_number(<<"s", "u", "m">>, path, done.v.total_i128)
        ELSE Ok(Json("Number", Float(done.v.total_f64.n, done.v.total_f64.d)))

\* the division is taken to be exact
avg_aggregation(path, objs) ==
    LET done == Accumulate(<<"a", "v", "g">>, path, objs, 1, NoTotal)
        sum_f64 == IF done.v.use_float THEN done.v.total_f64
                   ELSE [n |-> done.v.total_i128, d |-> 1]
    IN  IF ~done.ok THEN done
        ELSE IF done.v.count = 0 THEN Ok(Json("Null", <<>>))
        ELSE Ok(Json("Number", Float(sum_f64.n, sum_f64.d * done.v.count)))

compare_number_values(left, right) ==
    IF as_i64(left) # None /\ as_i64(right) # None THEN Cmp(as_i64(left)[1], as_i64(right)[1])
    ELSE IF as_u64(left) # None /\ as_u64(right) # None THEN Cmp(as_u64(left)[1], as_u64(right)[1])
    ELSE IF as_i64(left) # None /\ as_u64(right) # None
         THEN (IF as_i64(left)[1] < 0 THEN "Less" ELSE Cmp(as_i64(left)[1], as_u64(right)[1]))
    ELSE IF as_u64(left) # None /\ as_i64(right) # None
         THEN (IF as_i64(right)[1] < 0 THEN "Greater" ELSE Cmp(as_u64(left)[1], as_i64(right)[1]))
    ELSE CmpF64(left, right)

\* values of one comparable type only reach it
compare_same_type_values(left, right) ==
    IF left.t = "Bool" /\ right.t = "Bool"
    THEN Cmp(IF left.v THEN 1 ELSE 0, IF right.v THEN 1 ELSE 0)
    ELSE IF left.t = "String" /\ right.t = "String" THEN StrCmp(left.v, right.v)
    ELSE compare_number_values(left.v, right.v)

comparable_type(value) ==
    IF value.t \in {"Bool", "Number", "String"} THEN Some(value_type_name(value)) ELSE None

\* the loop of min_max_aggregation from the i-th object on
RECURSIVE MinMaxFrom(_, _, _, _, _)
MinMaxFrom(path, objs, is_min, i, best) ==
    LET function == IF is_min THEN <<"m", "i", "n">> ELSE <<"m", "a", "x">>
    IN  IF i > Len(objs) THEN Ok(IF best = None THEN Json("Null", <<>>) ELSE best[1])
        ELSE LET value == get(objs[i], path)
             IN  IF value = None \/ value[1].t = "Null"
                 THEN MinMaxFrom(path, objs, is_min, i + 1, best)
                 ELSE IF comparable_type(value[1]) = None
                 THEN Err(InvalidAggregation(function, path, "bool, number, or string",
                                             value_type_name(value[1])))
                 ELSE IF best # None /\ comparable_type(best[1]) # comparable_type(value[1])
                 THEN Err(IncompatibleAggregationTypes(function, path,
                              comparable_type(best[1])[1], comparable_type(value[1])[1]))
                 ELSE IF best = None THEN MinMaxFrom(path, objs, is_min, i + 1, value)
                 ELSE LET ordering == compare_same_type_values(best[1], value[1])
                      IN  MinMaxFrom(path, objs, is_min, i + 1,
                              IF (is_min /\ ordering = "Greater") \/ (~is_min /\ ordering = "Less")
                              THEN value ELSE best)

min_max_aggregation(path, objs, is_min) == MinMaxFrom(path, objs, is_min, 1, None)

\* required_path fails for a function other than count that has no path
evaluate_aggregation(expression, objs) ==
    IF expression.function = "Count" THEN count_aggregation(expression.path, objs)
    ELSE IF expression.path = None
    THEN Err(InvalidAggregation(aggregation_function_name(expression.function), <<"*">>,
                                "path argument", "none"))
    ELSE CASE expression.function = "Sum" -> sum_aggregation(expression.path[1], objs)
           [] expression.function = "Min" -> min_max_aggregation(expression.path[1], objs, TRUE)
           [] expression.function = "Max" -> min_max_aggregation(expression.path[1], objs, FALSE)
           [] expression.function = "Avg" -> avg_aggregation(expression.path[1], objs)

\* the loop of aggregate from the i-th expression on
RECURSIVE AggregateFrom(_, _, _, _)
AggregateFrom(expressions, objs, i, row) ==
    IF i > Len(expressions) THEN Ok(<<DynamicObject(row)>>)
    ELSE LET value == evaluate_aggregation(expressions[i], objs)
         IN  IF ~value.ok THEN value
             ELSE AggregateFrom(expressions, objs, i + 1,
                                MapInsert(row, aggregation_key(expressions[i]), value.v))

\* EngineSelection::Paths and EngineSelection::Aggregations
Paths(paths) == [kind |-> "Paths", items |-> paths]
Aggregations(expressions) == [kind |-> "Aggregations", items |-> expressions]

aggregate(p, objs) ==
    IF p.selection = None \/ p.selection[1].kind # "Aggregations" THEN Ok(objs)
    ELSE AggregateFrom(p.selection[1].items, objs, 1, EmptyMap)

AggregateObjects ==
    {DynamicObject(<<"b">> :> NumberFrom(1)),
     DynamicObject(<<"a">> :> Json("Null", <<>>)),
     DynamicObject(<<"a">> :> NumberFrom(1)),
     DynamicObject(<<"a">> :> NumberFrom(0 - 1)),
     DynamicObject(<<"a">> :> NumberFrom(I64_MIN)),
     DynamicObject(<<"a">> :> NumberFrom(I64_MAX)),
     DynamicObject(<<"a">> :> NumberFrom(U64_MAX)),
     DynamicObject(<<"a">> :> Json("Number", Float(1, 2))),
     DynamicObject(<<"a">> :> Json("String", <<"x">>)),
     DynamicObject(<<"a">> :> Json("Bool", TRUE)),
     DynamicObject(<<"a">> :> Json("Array", <<>>))}

AggregatePlans ==
    {QueryPlan(<<>>, selection, None) :
        selection \in
            {None, Some(Paths(<<<<"a">>>>))}
            \cup {Some(Aggregations(expressions)) :
                    expressions \in
                        {<<EngineAggregationExpr(function, Some(<<"a">>))>> :
                            function \in {"Sum", "Avg", "Min", "Max"}}
                        \cup {<<EngineAggregationExpr("Sum", None)>>,
                              <<EngineAggregationExpr("Count", None),
                                EngineAggregationExpr("Count", Some(<<"a">>))>>,
                              <<EngineAggregationExpr("Count", None),
                                EngineAggregationExpr("Count", Some(<<"a">>)),
                                EngineAggregationExpr("Sum", Some(<<"a">>)),
                                EngineAggregationExpr("Avg", Some(<<"a">>)),
                                EngineAggregationExpr("Min", Some(<<"a">>)),
                                EngineAggregationExpr("Max", Some(<<"a">>))>>}}}

InitAggregate ==
    /\ ListerIdle /\ now = 0 /\ CacheIdle /\ PlannerIdle /\ PathIdle /\ CodecIdle /\ MaterialIdle /\ ParserIdle /\ RunIdle
    /\ objects \in ObjectLists(AggregateObjects)
    /\ query \in AggregatePlans
    /\ output = None

Aggregate ==
    /\ output = None
    /\ output' = Some(aggregate(query, objects))
    /\ UNCHANGED <<listerVars, cacheVars, plannerVars, objects, query, pathVars, codecVars, materialVars, parserVars, runVars>>

SpecAggregate == InitAggregate /\ [][Aggregate]_vars

----------------------------------------------------------------------------
(* C18: for every list of objects and every path the aggregation gives       *)
(* exactly one row, in which sum over no non-null value is 0, avg, min and   *)
(* max over no non-null value are null, count(path) is the number of objects *)
(* whose path exists and is not null, and count of all objects is at least   *)
(* count(path).  The aggregation fails only for an expression other than     *)
(* count that has no path or meets a non-null value.                         *)

C18_Expressions ==
    IF query.selection # None /\ query.selection[1].kind = "Aggregations"
    THEN query.selection[1].items ELSE <<>>

\* the objects whose path exists and is not null
C18_NonNull(path) ==
    {i \in 1..Len(objects) : get(objects[i], path) # None /\ get(objects[i], path)[1].t # "Null"}

C18_Key(function, path) == function \o <<"(">> \o path \o <<")">>

C18_RowOf(row, expression) ==
    LET path == expression.path[1]
    IN  CASE expression.function = "Count" /\ expression.path = None ->
                /\ row[<<"c", "o", "u", "n", "t", "(", "*", ")">>] = NumberFrom(Len(objects))
                /\ \A other \in Range(C18_Expressions) :
                      (other.function = "Count" /\ other.path # None) =>
                          row[<<"c", "o", "u", "n", "t", "(", "*", ")">>].v.n >= row[C18_Key(<<"c", "o", "u", "n", "t">>, other.path[1])].v.n
          [] expression.function = "Count" /\ expression.path # None ->
                row[C18_Key(<<"c", "o", "u", "n", "t">>, path)] = NumberFrom(Cardinality(C18_NonNull(path)))
          [] expression.function = "Sum" ->
                C18_NonNull(path) = {} => row[C18_Key(<<"s", "u", "m">>, path)] = NumberFrom(0)
          [] expression.function = "Avg" ->
                C18_NonNull(path) = {} => row[C18_Key(<<"a", "v", "g">>, path)] = Json("Null", <<>>)
          [] expression.function = "Min" ->
                C18_NonNull(path) = {} => row[C18_Key(<<"m", "i", "n">>, path)] = Json("Null", <<>>)
          [] expression.function = "Max" ->
                C18_NonNull(path) = {} => row[C18_Key(<<"m", "a", "x">>, path)] = Json("Null", <<>>)

----------------------------------------------------------------------------
(* C19: sum(path) over integer inputs returns the exact integer total; it    *)
(* gives an f64 result only when a float input appears or when the integer  *)
(* total is outside the representable integer range, and then it gives the   *)
(* f64 total instead of failing.                                             *)

\* twice the exact total of the numbers at the path in objects i.., the
\* fractions of the inputs being halves
RECURSIVE C19_TwiceTotal(_, _)
C19_TwiceTotal(path, i) ==
    IF i > Len(objects) THEN 0
    ELSE (IF i \in C18_NonNull(path)
          THEN (2 * get(objects[i], path)[1].v.n) \div get(objects[i], path)[1].v.d
          ELSE 0) + C19_TwiceTotal(path, i + 1)

C19_AllIntegers(path) ==
    \A i \in C18_NonNull(path) : get(objects[i], path)[1].v.k # "Float"

C19_SumExactOrFloat ==
    (/\ output # None
     /\ query.selection = Some(Aggregations(<<EngineAggregationExpr("Sum", Some(<<"a">>))>>))
     /\ \A i \in C18_NonNull(<<"a">>) : get(objects[i], <<"a">>)[1].t = "Number") =>
        /\ output[1].ok
        /\ output[1].v[1].fields[<<"s", "u", "m", "(", "a", ")">>] =
              IF /\ C19_AllIntegers(<<"a">>)
                 /\ C19_TwiceTotal(<<"a">>, 1) \div 2 >= I64_MIN
                 /\ C19_TwiceTotal(<<"a">>, 1) \div 2 <= U64_MAX
              THEN NumberFrom(C19_TwiceTotal(<<"a">>, 1) \div 2)
              ELSE Json("Number", Float(C19_TwiceTotal(<<"a">>, 1), 2))

----------------------------------------------------------------------------
(* Path codec (src/src/path/mod.rs): flatten and reconstruct *)

\* str::parse::<usize>: decimal digits after an optional '+'; no part of the
\* model is long enough to overflow usize
ParseUsize(s) ==
    LET digits == IF s # <<>> /\ s[1] = "+" THEN Tail(s) ELSE s
        value[i \in 0..Len(digits)] ==
            IF i = 0 THEN 0
            ELSE 10 * value[i - 1] + ((CHOOSE k \in 1..10 : DIGITS[k] = digits[i]) - 1)
    IN  IF digits = <<>> \/ \E i \in 1..Len(digits) : \A k \in 1..10 : DIGITS[k] # digits[i]
        THEN None ELSE Some(value[Len(digits)])

RECURSIVE flatten_segments(_, _, _)
RECURSIVE FlattenEach(_, _, _, _, _)

\* the loop over the children of an object or an array: push the segment,
\* flatten the child, pop
FlattenEach(path, segments, children, i, out) ==
    IF i > Len(segments) THEN out
    ELSE FlattenEach(path, segments, children, i + 1,
                     flatten_segments(Append(path, segments[i]), children[i], out))

flatten_segments(path, value, out) ==
    CASE value.t = "Object" ->
            LET keys == SortedKeys(DOMAIN value.v)
            IN  FlattenEach(path, [i \in 1..Len(keys) |-> encode_segment(keys[i])],
                            [i \in 1..Len(keys) |-> value.v[keys[i]]], 1, out)
      [] value.t = "Array" ->
            LET done == FlattenEach(path, [i \in 1..Len(value.v) |-> to_string(i - 1)],
                                    value.v, 1, out)
            IN  IF path # <<>> THEN MapInsert(done, Join(path, <<".">>), value) ELSE done
      [] value.t \in {"String", "Bool", "Number"} ->
            IF path # <<>> THEN MapInsert(out, Join(path, <<".">>), value) ELSE out
      [] value.t = "Null" -> out

flatten_json_to_fields(value) == flatten_segments(<<>>, value, EmptyMap)

RECURSIVE insert_nested_value(_, _, _)
insert_nested_value(node, parts, value) ==
    IF parts = <<>> THEN value
    ELSE IF ParseUsize(parts[1]) # None
    THEN LET index == ParseUsize(parts[1])[1]
             array == IF node.t = "Array" THEN node.v ELSE <<>>
             padded == array \o [i \in 1..(index + 1 - Len(array)) |-> Json("Null", <<>>)]
         IN  Json("Array", [padded EXCEPT ![index + 1] =
                                insert_nested_value(padded[index + 1], Tail(parts), value)])
    ELSE LET map == IF node.t = "Object" THEN node.v ELSE EmptyMap
             entry == IF parts[1] \in DOMAIN map THEN map[parts[1]] ELSE Json("Null", <<>>)
         IN  Json("Object", MapInsert(map, parts[1],
                                      insert_nested_value(entry, Tail(parts), value)))

\* the loop of reconstruct_nested_from_fields over the keys in map order
RECURSIVE ReconstructFrom(_, _, _, _)
ReconstructFrom(flds, keys, i, node) ==
    IF i > Len(keys) THEN node
    ELSE ReconstructFrom(flds, keys, i + 1,
                         insert_nested_value(node, decode_parts(keys[i]), flds[keys[i]]))

reconstruct_nested_from_fields(flds) ==
    ReconstructFrom(flds, SortedKeys(DOMAIN flds), 1, Json("Object", EmptyMap))

\* how deep the JSON values of the model nest
MaxDepth == 2

JsonLeaves ==
    {Json("Null", <<>>), Json("Bool", TRUE), NumberFrom(1), Json("String", <<"x">>),
     Json("Array", <<>>), Json("Object", EmptyMap)}

JsonKeys == {<<"a">>, <<"a", ".", "b">>, <<"a", "%", "b">>, <<"0">>, <<>>}

RECURSIVE JsonValues(_)
JsonValues(depth) ==
    IF depth = 0 THEN JsonLeaves
    ELSE LET inner == JsonValues(depth - 1)
         IN  inner \cup {Json("Object", key :> value) : key \in JsonKeys, value \in inner}
                   \cup {Json("Array", <<value>>) : value \in inner}

InitPath ==
    /\ ListerIdle /\ now = 0 /\ CacheIdle /\ PlannerIdle /\ EngineIdle /\ CodecIdle /\ MaterialIdle /\ ParserIdle /\ RunIdle
    /\ root \in {Some(value) : value \in JsonValues(MaxDepth)}
    /\ fields = None
    /\ rebuilt = None

Flatten ==
    /\ fields = None
    /\ fields' = Some(flatten_json_to_fields(root[1]))
    /\ UNCHANGED <<listerVars, cacheVars, plannerVars, engineVars, root, rebuilt, codecVars, materialVars, parserVars, runVars>>

Reconstruct ==
    /\ fields # None /\ rebuilt = None
    /\ rebuilt' = Some(reconstruct_nested_from_fields(fields[1]))
    /\ UNCHANGED <<listerVars, cacheVars, plannerVars, engineVars, root, fields, codecVars, materialVars, parserVars, runVars>>

NextPath == Flatten \/ Reconstruct

SpecPath == InitPath /\ [][NextPath]_vars

----------------------------------------------------------------------------
(* C20: reconstruct_nested_from_fields(flatten_json_to_fields(j)) = j for    *)
(* any JSON value j, including objects whose keys contain '.' or '%', keys   *)
(* that are decimal digit strings or empty, arrays, nested empty containers  *)
(* and explicit nulls.                                                       *)

C20_RoundTrip == rebuilt # None => rebuilt[1] = root[1]

----------------------------------------------------------------------------
(* Path codec: encode_segment and decode_segment *)

\* how long the segments of the model are at most
MaxSegmentLen == 3

SegmentChars == {"a", "%", ".", "2", "5", "E", "e", "U+00E9", "U+20AC"}

Segments == UNION {[1..n -> SegmentChars] : n \in 0..MaxSegmentLen}

InitCodec ==
    /\ ListerIdle /\ now = 0 /\ CacheIdle /\ PlannerIdle /\ EngineIdle /\ PathIdle /\ MaterialIdle /\ ParserIdle /\ RunIdle
    /\ seg \in {Some(s) : s \in Segments}
    /\ encoded = None
    /\ decoded = None

Encode ==
    /\ encoded = None
    /\ encoded' = Some(encode_segment(seg[1]))
    /\ UNCHANGED <<listerVars, cacheVars, plannerVars, engineVars, pathVars, seg, decoded, materialVars, parserVars, runVars>>

\* decoded is Ok(the string) or Err("panic")
Decode ==
    /\ encoded # None /\ decoded = None
    /\ decoded' = Some(DecodeFrom(as_bytes(encoded[1]), 1))
    /\ UNCHANGED <<listerVars, cacheVars, plannerVars, engineVars, pathVars, seg, encoded, materialVars, parserVars, runVars>>

NextCodec == Encode \/ Decode

SpecCodec == InitCodec /\ [][NextCodec]_vars

----------------------------------------------------------------------------
(* C21: decode_segment(encode_segment(s)) = s for any unicode string s, also *)
(* with '%', '.', the literal text '%2E' or '%25', a trailing '%' and        *)
(* characters outside ASCII, and decode_segment never fails on the output of *)
(* encode_segment.                                                           *)

C21_RoundTrip == decoded # None => decoded[1] = Ok(seg[1])

----------------------------------------------------------------------------
(* Object materialisation on its own: dynamic_to_engine_object of one object *)

JsonObject(entries) == Json("Object", entries)

RawMetadata ==
    {JsonObject(<<"n", "a", "m", "e">> :> Json("String", <<"a">>)),
     JsonObject(<<"n", "a", "m", "e">> :> Json("String", <<"a">>)
                @@ <<"l", "a", "b", "e", "l", "s">> :> JsonObject(<<"a", "p", "p">> :> Json("String", <<"x">>))),
     JsonObject(<<"n", "a", "m", "e">> :> Json("String", <<"a">>)
                @@ <<"l", "a", "b", "e", "l", "s">> :> JsonObject(<<"a", ".", "b">> :> Json("String", <<"x">>))),
     JsonObject(<<"n", "a", "m", "e">> :> Json("String", <<"a">>)
                @@ <<"l", "a", "b", "e", "l", "s">> :> JsonObject(<<"a">> :> JsonObject(<<"b">> :> Json("String", <<"x">>)))),
     JsonObject(<<"n", "a", "m", "e">> :> Json("String", <<"a">>)
                @@ <<"a", "n", "n", "o", "t", "a", "t", "i", "o", "n", "s">> :> JsonObject(<<"a", "%", "b">> :> Json("String", <<"x">>))),
     JsonObject(<<"n", "a", "m", "e">> :> Json("String", <<"a">>)
                @@ <<"a", "n", "n", "o", "t", "a", "t", "i", "o", "n", "s">> :> JsonObject(<<"a", "%", "2", "E", "b">> :> Json("String", <<"x">>))),
     JsonObject(<<"n", "a", "m", "e">> :> Json("String", <<"a">>)
                @@ <<"l", "a", "b", "e", "l", "s">> :> JsonObject(<<"a", ".", "b">> :> Json("String", <<"x">>)
                                           @@ <<"a">> :> JsonObject(<<"b">> :> Json("String", <<"y">>)))),
     Json("Null", <<>>)}

RawData ==
    {JsonObject(EmptyMap),
     JsonObject(<<"s", "p", "e", "c">> :> JsonObject(<<"r", "e", "p", "l", "i", "c", "a", "s">> :> Json("Number", [k |-> "PosInt", n |-> 1, d |-> 1]))),
     JsonObject(<<"s", "p", "e", "c">> :> JsonObject(<<"n", "o", "d", "e", "N", "a", "m", "e">> :> Json("Null", <<>>))),
     JsonObject(<<"s", "t", "a", "t", "u", "s">> :> JsonObject(<<"i", "p", "s">> :> Json("Array", <<Json("String", <<"x">>)>>))),
     JsonObject(<<"a", ".", "b">> :> Json("Bool", TRUE)),
     JsonObject(<<"a">> :> JsonObject(<<"b">> :> Json("Bool", TRUE))),
     JsonObject(<<"m", "e", "t", "a", "d", "a", "t", "a">> :> JsonObject(<<"n", "a", "m", "e">> :> Json("String", <<"b">>))),
     Json("String", <<"x">>)}

InitMaterialise ==
    /\ ListerIdle /\ now = 0 /\ CacheIdle /\ PlannerIdle /\ EngineIdle /\ PathIdle /\ CodecIdle
    /\ ParserIdle /\ RunIdle
    /\ raw \in {Some([metadata |-> metadata, data |-> data]) :
                    metadata \in RawMetadata, data \in RawData}
    /\ materialised = None

Materialise ==
    /\ materialised = None
    /\ materialised' = Some(dynamic_to_engine_object(raw[1]))
    /\ UNCHANGED <<listerVars, cacheVars, plannerVars, engineVars, pathVars, codecVars, raw, parserVars, runVars>>

SpecMaterialise == InitMaterialise /\ [][Materialise]_vars

----------------------------------------------------------------------------
(* C22: every object the lister materialises has encoded keys: a JSON key    *)
(* with a literal '.' or '%' is stored with '%2E' / '%25' in its segment, so *)
(* that raw objects differing only in {"a": {"b": v}} versus {"a.b": v} get  *)
(* different keys.  Stated as: the fields are the path codec's flatten of    *)
(* the object merged from the metadata and the top-level data keys.          *)

\* the single JSON object of the raw object: its data keys and its metadata
C22_Merged(object) ==
    IF object.data.t = "Object"
    THEN JsonObject([key \in DOMAIN object.data.v \cup {<<"m", "e", "t", "a", "d", "a", "t", "a">>} |->
                        IF key \in DOMAIN object.data.v THEN object.data.v[key]
                        ELSE object.metadata])
    ELSE JsonObject(<<"m", "e", "t", "a", "d", "a", "t", "a">> :> object.metadata @@ <<"d", "a", "t", "a">> :> object.data)

C22_EncodedKeys ==
    materialised # None =>
        materialised[1].fields = flatten_json_to_fields(C22_Merged(raw[1]))

-----------------------------------------------------------------------------
(* Query parser (src/src/parser/mod.rs)                                     *)

\* A nom parser applied to the input s either fails or consumes a prefix and
\* leaves the rest: its result is the set of rests, empty on failure and one
\* rest on success. The values the parsers build are left out, since
\* parse_query's error does not depend on them.
Fails == {}
Rest(s) == {s}
\* one parser after another
AndThen(r, P(_)) == UNION {P(x) : x \in r}
\* alt((a, b)) and opt: the second only where the first fails
OrElse(a, b) == IF a # Fails THEN a ELSE b

\* the length of the longest prefix of s whose characters all pass Test
Leading(s, Test(_)) ==
    CHOOSE n \in 0..Len(s) :
        /\ \A i \in 1..n : Test(s[i])
        /\ n = Len(s) \/ ~Test(s[n + 1])

Drop(s, n) == SubSeq(s, n + 1, Len(s))

take_while(s, Test(_)) == Rest(Drop(s, Leading(s, Test)))
take_while1(s, Test(_)) == IF Leading(s, Test) = 0 THEN Fails ELSE take_while(s, Test)

multispace0(s) == take_while(s, LAMBDA c : c \in Whitespace)
multispace1(s) == take_while1(s, LAMBDA c : c \in Whitespace)

tag(t, s) ==
    IF Len(s) >= Len(t) /\ SubSeq(s, 1, Len(t)) = t THEN Rest(Drop(s, Len(t))) ELSE Fails

tag_no_case(t, s) ==
    IF Len(s) >= Len(t) /\ EqIgnoreAsciiCase(SubSeq(s, 1, Len(t)), t)
    THEN Rest(Drop(s, Len(t)))
    ELSE Fails

is_ident_start(c) ==
    \/ \E i \in 1..Len(UPPER) : c = UPPER[i] \/ c = LOWER[i]
    \/ c = "_"

is_ident_char(c) ==
    \/ is_ident_start(c)
    \/ \E i \in 1..Len(DIGITS) : c = DIGITS[i]
    \/ c = "-"

ident(s) == AndThen(take_while1(s, is_ident_start), LAMBDA r : take_while(r, is_ident_char))

\* many0(preceded(char('.'), ident)): stops, consuming nothing more, at the
\* first '.' that no identifier follows
RECURSIVE PathSegments(_)
PathSegments(s) == OrElse(AndThen(AndThen(tag(<<".">>, s), ident), PathSegments), Rest(s))

parse_path(s) == AndThen(ident(s), PathSegments)

operator(s) == OrElse(tag(<<"=", "=">>, s), tag(<<"!", "=">>, s))

quoted_string_value(s) ==
    AndThen(AndThen(tag(<<"'">>, s), LAMBDA r : take_while(r, LAMBDA c : c # "'")),
            LAMBDA r : tag(<<"'">>, r))

bare_value(s) == take_while1(s, LAMBDA c : c \notin Whitespace)

predicate_value(s) == OrElse(quoted_string_value(s), bare_value(s))

parse_predicate(s) ==
    AndThen(AndThen(AndThen(AndThen(parse_path(s), multispace0), operator), multispace0),
            predicate_value)

and_separator(s) ==
    AndThen(AndThen(multispace1(s), LAMBDA r : tag_no_case(<<"a", "n", "d">>, r)), multispace1)

select_separator(s) ==
    AndThen(AndThen(multispace0(s), LAMBDA r : tag(<<",">>, r)), multispace0)

order_key_separator(s) == select_separator(s)

\* separated_list1's loop after its first element: a separator that no element
\* follows is not consumed
RECURSIVE MorePredicates(_)
MorePredicates(s) == OrElse(AndThen(AndThen(and_separator(s), parse_predicate), MorePredicates), Rest(s))

where_clause(s) ==
    AndThen(AndThen(AndThen(tag_no_case(<<"w", "h", "e", "r", "e">>, s), multispace1), parse_predicate),
            MorePredicates)

RECURSIVE MorePaths(_)
MorePaths(s) == OrElse(AndThen(AndThen(select_separator(s), parse_path), MorePaths), Rest(s))

select_clause(s) ==
    AndThen(AndThen(AndThen(tag_no_case(<<"s", "e", "l", "e", "c", "t">>, s), multispace1), parse_path),
            MorePaths)

sort_direction(s) == OrElse(tag_no_case(<<"a", "s", "c">>, s), tag_no_case(<<"d", "e", "s", "c">>, s))

\* opt(preceded(multispace1, sort_direction)) after the path
Direction(s) == OrElse(AndThen(multispace1(s), sort_direction), Rest(s))

sort_key(s) == AndThen(parse_path(s), Direction)

RECURSIVE MoreSortKeys(_)
MoreSortKeys(s) == OrElse(AndThen(AndThen(order_key_separator(s), sort_key), MoreSortKeys), Rest(s))

order_by_clause(s) ==
    AndThen(AndThen(AndThen(AndThen(AndThen(tag_no_case(<<"o", "r", "d", "e", "r">>, s), multispace1),
                                    LAMBDA r : tag_no_case(<<"b", "y">>, r)),
                            multispace1),
                    sort_key),
            MoreSortKeys)

\* alt((order_by_clause, select_clause)): which clause it is and the rest
query_suffix_clause(s) ==
    OrElse({[clause |-> "OrderBy", rest |-> r] : r \in order_by_clause(s)},
           {[clause |-> "Select", rest |-> r] : r \in select_clause(s)})

\* many0(preceded(multispace1, query_suffix_clause)): the clauses in order and
\* the rest after the last one
RECURSIVE SuffixClauses(_)
SuffixClauses(s) ==
    OrElse(UNION {{[clauses |-> <<c.clause>> \o after.clauses, rest |-> after.rest] :
                      after \in SuffixClauses(c.rest)} :
                  c \in AndThen(multispace1(s), query_suffix_clause)},
           {[clauses |-> <<>>, rest |-> s]})

\* a clause kind that the suffix clauses hold more than once
Repeated(clauses) ==
    \E i, j \in DOMAIN clauses : i < j /\ clauses[i] = clauses[j]

query_ast(s) ==
    {suffix.rest : suffix \in {x \in AndThen(where_clause(s), SuffixClauses) :
                                   ~Repeated(x.clauses)}}

\* str::split_whitespace().next()
FirstToken(s) ==
    LET from == Drop(s, Leading(s, LAMBDA c : c \in Whitespace))
    IN  IF from = <<>> THEN None
        ELSE Some(SubSeq(from, 1, Leading(from, LAMBDA c : c \notin Whitespace)))

starts_with_where_keyword(s) ==
    FirstToken(s) # None /\ EqIgnoreAsciiCase(FirstToken(s)[1], <<"w", "h", "e", "r", "e">>)

normalize_arg(arg) ==
    IF \E i \in 1..Len(arg) : arg[i] \in Whitespace THEN <<"'">> \o arg \o <<"'">> ELSE arg

\* Ok carries the text the syntax tree was built from
parse_query(s) ==
    LET trimmed == Trim(s)
        consumed == AndThen(AndThen(multispace0(trimmed), query_ast), multispace0)
    IN  IF trimmed = <<>> THEN Err("WHERE clause is empty")
        ELSE IF ~starts_with_where_keyword(trimmed) THEN Err("query must start with WHERE")
        ELSE IF <<>> \in consumed THEN Ok(trimmed)
        ELSE Err("invalid query syntax")

parse_query_args(args) ==
    IF args = <<>> THEN Err("WHERE clause is empty")
    ELSE IF ~EqIgnoreAsciiCase(args[1], <<"w", "h", "e", "r", "e">>) THEN Err("query must start with WHERE")
    ELSE parse_query(Join([i \in DOMAIN args |-> normalize_arg(args[i])], <<" ">>))

\* Sample command lines: up to MaxWords arguments
MaxWords == 4
Words ==
    {<<"w", "h", "e", "r", "e">>, <<"W", "h", "e", "r", "e">>, <<"w", "h", "e", "r", "e", "v", "e", "r">>, <<"a", "=", "=", "x">>, <<"a", "n", "d">>, <<"s", "e", "l", "e", "c", "t">>, <<"a", ".", "b">>, <<>>, <<"x", " ", "y">>,
     <<" ">>}
WordLists == UNION {[1..n -> Words] : n \in 0..MaxWords}

InitParser ==
    /\ ListerIdle /\ now = 0 /\ CacheIdle /\ PlannerIdle /\ EngineIdle /\ PathIdle /\ CodecIdle
    /\ MaterialIdle /\ RunIdle
    /\ words \in {Some(w) : w \in WordLists}
    /\ parsed = None

\* the caller hands the joined command line to parse_query
ParseQuery ==
    /\ parsed = None
    /\ parsed' = Some([input |-> Join(words[1], <<" ">>),
                        result |-> parse_query(Join(words[1], <<" ">>))])
    /\ UNCHANGED <<listerVars, cacheVars, plannerVars, engineVars, pathVars, codecVars,
                   materialVars, words, runVars>>

\* the caller hands the arguments to parse_query_args
ParseQueryArgs ==
    /\ parsed = None
    /\ parsed' = Some([input |-> Join(words[1], <<" ">>),
                        result |-> parse_query_args(words[1])])
    /\ UNCHANGED <<listerVars, cacheVars, plannerVars, engineVars, pathVars, codecVars,
                   materialVars, words, runVars>>

NextParser == ParseQuery \/ ParseQueryArgs

SpecParser == InitParser /\ [][NextParser]_vars

-----------------------------------------------------------------------------
(* C23: parse_query and parse_query_args put every rejected input into       *)
(* exactly one of three messages: "query must start with WHERE" when the     *)
(* first token of the (trimmed) input is not `where` in any case; "WHERE     *)
(* clause is empty" when the where body is empty, which is an empty input or *)
(* nothing after the `where` token; "invalid query syntax" for every other   *)
(* rejection.                                                                *)
C23_Expected(s) ==
    LET first == FirstToken(s)
    IN  IF first = None THEN "WHERE clause is empty"
        ELSE IF ~EqIgnoreAsciiCase(first[1], <<"w", "h", "e", "r", "e">>) THEN "query must start with WHERE"
        ELSE IF Trim(Drop(Trim(s), 5)) = <<>> THEN "WHERE clause is empty"
        ELSE "invalid query syntax"

C23_ThreeMessages ==
    parsed # None /\ ~parsed[1].result.ok =>
        parsed[1].result.v = C23_Expected(parsed[1].input)

-----------------------------------------------------------------------------
(* C24: whenever a page request that carried selectors ends because the API  *)
(* server rejected the selectors (HTTP 400 with a selector marker), on the   *)
(* first attempt or on a later one after transient failures, the lister      *)
(* starts one selector-less run of list_pages and records the                *)
(* SelectorFallback diagnostic.                                              *)

\* run_with_retry returned because the last attempt's answer was a selector rejection
C24_ApiRejectedSelectors ==
    /\ pc = "list_ret" /\ ~fallback /\ has_selectors(options)
    /\ rr.last[1].tag = "err"
    /\ classify_list_error(rr.last[1].source, TRUE) = "SelectorRejected"

C24_Step ==
    C24_ApiRejectedSelectors =>
        /\ fallback' /\ pc' = "list" /\ attempt' = 1
        /\ calls'.list_pages = <<options, DefaultOptions>>
        /\ params' = build_list_params(LIST_PAGE_SIZE, None, DefaultOptions)
        /\ diagnostics' = <<SelectorFallback(options)>>

C24_FallbackOnEveryRejection == [][C24_Step]_vars

-----------------------------------------------------------------------------
(* C25: the objects of a successful ListResult are the items of one complete *)
(* run of list_pages, from the request without a token to the page with the  *)
(* terminal token, in page order; what a run that was given up for a         *)
(* selector fallback or a discovery refresh had collected is not among them, *)
(* and an error carries no items.                                            *)

\* the pages received since list_pages was last entered form a complete run
C25_CompleteRun ==
    /\ pages # <<>> /\ Len(sent) = Len(pages)
    /\ sent[1].continue_token = None
    /\ \A i \in 1..(Len(pages) - 1) :
        /\ IsFreshToken(pages[i].continue_)
        /\ sent[i + 1].continue_token = pages[i].continue_
    /\ ~IsFreshToken(pages[Len(pages)].continue_)
    /\ \A i \in 1..Len(sent) :
        /\ sent[i].field_selector = calls.list_pages[Len(calls.list_pages)].field_selector
        /\ sent[i].label_selector = calls.list_pages[Len(calls.list_pages)].label_selector

C25_OneCompleteRun ==
    /\ Succeeded =>
        /\ C25_CompleteRun
        /\ result[1].value.objects = MapObjects(ConcatItems(pages))
        /\ Len(result[1].value.objects) = SumItems(pages)
    /\ (Done /\ result[1].tag = "err") => DOMAIN result[1] = {"tag", "error"}

\* a success after a run with selectors, its fallback run and a refresh had
\* each been given up, one of them with items collected
C25_Witness ==
    /\ Succeeded /\ calls.abandoned /\ phase = 2 /\ fallback
    /\ Len(pages) >= 2 /\ result[1].value.objects # <<>>

-----------------------------------------------------------------------------
(* C26: every attempt of a page request sends the same continue token,       *)
(* selectors and page limit; an attempt that fails or times out adds no item *)
(* and changes neither the token nor the page counter, so the items          *)
(* collected are those of the pages received, one request per page, however  *)
(* many attempts failed on the way.                                          *)

\* the attempt made in this step of a page request failed or timed out
C26_FailedAttempt ==
    /\ pc = "list" /\ rr'.invocations = rr.invocations + 1
    /\ Last(rr'.log) # "ok"

C26_Inv ==
    /\ pc \in {"list", "list_ret"} =>
        /\ \A i \in 1..Len(rr.requests) : rr.requests[i] = params
        /\ Len(rr.requests) = rr.invocations
        /\ params = build_list_params(LIST_PAGE_SIZE, continue_token, CurOptions(Cur))
        /\ rr.invocations > 0 => sent # <<>> /\ sent[Len(sent)] = params
        /\ page_count = Len(pages) + 1
    /\ all_items = ConcatItems(pages)
    /\ Len(sent) <= Len(pages) + 1

C26_Step ==
    C26_FailedAttempt =>
        /\ UNCHANGED <<params, all_items, continue_token, page_count, pages>>
        /\ Len(sent') = Len(pages) + 1

C26_RetrySendsSameRequest == []C26_Inv /\ [][C26_Step]_vars

\* the request for a later page, with a token and selectors, answered on the
\* third attempt
C26_Witness ==
    /\ pc = "list_ret" /\ Ret.tag = "ok" /\ Len(rr.requests) = 3
    /\ Len(pages) >= 1 /\ all_items # <<>>
    /\ params.continue_token = Some("t1") /\ params.field_selector # None

-----------------------------------------------------------------------------
(* Termination of list_async.  The runtime drives the one task of the call   *)
(* (Runtime::block_on), and every attempt is wrapped in                      *)
(* timeout(policy.request_timeout, ..), so each await of the call completes: *)
(* a step of the call that can be taken is eventually taken.                 *)
\* What the server answers matters to the control flow of the call only by its
\* kind and, for a page, by its continue token: the pages here carry no items.
TerminatingListOutcomes ==
    {[tag |-> "ok", value |-> [items |-> <<>>, continue_ |-> t]] : t \in Tokens} \cup Failures

ListAttemptTerminating == ListAttemptOn(TerminatingListOutcomes)

NextTerminating ==
    \/ Start \/ Resolve \/ DiscoveryAttempt \/ DiscoveryReturn
    \/ ListAttemptTerminating \/ ListReturn

SpecTerminating == Init /\ [][NextTerminating]_vars /\ WF_vars(NextTerminating)

-----------------------------------------------------------------------------
(* C27: with every attempt returning or timing out, list_async returns,      *)
(* whatever the server answers, and what it returns is a success, an         *)
(* exhausted retry, PaginationExceeded, PaginationStuck or a classified      *)
(* error that is not retried; a server that keeps alternating two continue   *)
(* tokens is stopped by PaginationExceeded after MAX_LIST_PAGES pages.       *)

\* the classified errors that are returned without a retry
C27_NonRetryable ==
    {"EmptyResourceName", "ConfigInfer", "ClientBuild", "ResourceNotFound", "DiscoveryRun",
     "ListFailed", "SelectorRejected", "ResourceResolutionStale"}

C27_Ending ==
    \/ result[1].tag = "ok"
    \/ /\ result[1].tag = "err"
       /\ result[1].error.kind \in
            {"RetryExhausted", "PaginationExceeded", "PaginationStuck"} \cup C27_NonRetryable

\* every page received so far carried the next of two alternating tokens
C27_Cycling ==
    \A i \in 1..Len(pages) :
        pages[i].continue_ = IF i % 2 = 1 THEN Some("t1") ELSE Some("t2")

C27_Terminates ==
    /\ <>Done
    /\ [](Done => C27_Ending)
    /\ []((C27_Cycling /\ Len(pages) = MAX_LIST_PAGES) =>
            /\ Failed("PaginationExceeded")
            /\ Len(sent) = MAX_LIST_PAGES /\ page_count = MAX_LIST_PAGES + 1)

C27_Witness ==
    /\ Failed("PaginationExceeded") /\ C27_Cycling /\ Len(pages) = MAX_LIST_PAGES
    /\ phase = 2 /\ fallback

-----------------------------------------------------------------------------
(* C28: a successful ListResult holds at most one SelectorFallback           *)
(* diagnostic, and holds one exactly when its objects were fetched without   *)
(* selectors although the caller's options carry selectors; the diagnostic   *)
(* of a fallback whose run was given up for a discovery refresh is not in    *)
(* the result.                                                               *)

\* the run that produced the result sent no selector
C28_SelectorLessRun ==
    \A i \in 1..Len(sent) : sent[i].field_selector = None /\ sent[i].label_selector = None

C28_OneFallbackDiagnostic ==
    Succeeded =>
        /\ Len(result[1].value.diagnostics) <= 1
        /\ result[1].value.diagnostics # <<>> <=> (has_selectors(options) /\ C28_SelectorLessRun)
        /\ result[1].value.diagnostics \in {<<>>, <<SelectorFallback(options)>>}
        /\ calls.recorded <= 2
        /\ phase = 1 => Len(result[1].value.diagnostics) = calls.recorded

\* the call recorded a fallback, refreshed the discovery and succeeded in the
\* second run with the selectors: the first run's diagnostic is not returned
C28_Witness ==
    /\ Succeeded /\ phase = 2 /\ calls.recorded = 1
    /\ ~fallback /\ result[1].value.diagnostics = <<>>

-----------------------------------------------------------------------------
(* C29: however cache_lookup, cache_insert and invalidate_discovery_cache of *)
(* concurrent calls interleave, cache_lookup has released its shared lock    *)
(* before it asks for the exclusive one, and under the exclusive lock it     *)
(* removes the entry only if the entry is expired at that moment: an entry   *)
(* another task inserted between the two acquisitions, not yet expired, is   *)
(* left in the cache.                                                        *)

\* task t holds the write guard in cache_lookup and meets an unexpired entry
C29_FreshEntry(t) ==
    /\ tasks[t].pc = "lookup_writing"
    /\ KeyPods \in DOMAIN dcache /\ now <= dcache[KeyPods].expires_at

C29_Inv ==
    \A t \in TaskIds :
        /\ tasks[t].pc \in {"lookup_write", "lookup_writing"} => t \notin lock.readers
        /\ tasks[t].pc = "lookup_writing" => lock.writer = Some(t) /\ lock.readers = {}

C29_Step ==
    \A t \in TaskIds :
        (tasks[t].pc = "lookup_writing" /\ tasks'[t].pc # "lookup_writing") =>
            /\ C29_FreshEntry(t) => dcache' = dcache /\ tasks'[t].spared
            /\ dcache' # dcache =>
                /\ KeyPods \in DOMAIN dcache /\ now > dcache[KeyPods].expires_at
                /\ dcache' = MapRemove(dcache, KeyPods)

C29_RemovesOnlyExpired == []C29_Inv /\ [][C29_Step]_vars

\* cache_lookup of t1 found the entry expired under the read guard, t2 replaced
\* it meanwhile, and t1 under the write guard has left the new entry alone
C29_Witness ==
    /\ tasks["t1"].spared /\ tasks["t1"].pc = "discovery"
    /\ KeyPods \in DOMAIN dcache /\ now <= dcache[KeyPods].expires_at

----------------------------------------------------------------------------
(* One query run (src/src/cli/mod.rs, run): the predicates of the parsed     *)
(* query go to plan_pushdown and, all of them, into the engine's plan;       *)
(* k8s::list returns the objects the API server sent, either with the        *)
(* selectors applied or, after a selector fallback, all of them;             *)
(* engine::evaluate filters what was listed.                                 *)

\* cli::predicate_to_engine
predicate_to_engine(predicate) ==
    [path |-> predicate.path, op |-> predicate.op, value |-> predicate.value]

\* cli::ast_to_engine_plan, for a query of predicates only
ast_to_engine_plan(preds) ==
    QueryPlan([i \in 1..Len(preds) |-> predicate_to_engine(preds[i])], None, None)

\* one requirement of a selector string: key=value or key!=value
SelectorTerm(fragment) ==
    LET at == CHOOSE i \in 1..Len(fragment) :
                    fragment[i] = "=" /\ \A j \in 1..(i - 1) : fragment[j] # "="
        differs == at > 1 /\ fragment[at - 1] = "!"
    IN  [key |-> SubSeq(fragment, 1, IF differs THEN at - 2 ELSE at - 1),
         differs |-> differs,
         value |-> SubSeq(fragment, at + 1, Len(fragment))]

SelectorTerms(selector) ==
    IF selector = None THEN <<>>
    ELSE LET fragments == Split(selector[1], ",")
         IN  [i \in 1..Len(fragments) |-> SelectorTerm(fragments[i])]

\* the field labels the API server knows for every resource
ServerFieldLabels == {<<"m", "e", "t", "a", "d", "a", "t", "a", ".", "n", "a", "m", "e">>, <<"m", "e", "t", "a", "d", "a", "t", "a", ".", "n", "a", "m", "e", "s", "p", "a", "c", "e">>}

\* the API server answers 400 to a field selector on another field label
ServerUnderstands(opts) ==
    \A i \in 1..Len(SelectorTerms(opts.field_selector)) :
        SelectorTerms(opts.field_selector)[i].key \in ServerFieldLabels

\* the string under `key` of the object's metadata, "" when there is none
MetadataString(item, key) ==
    IF item.metadata.t = "Object" /\ key \in DOMAIN item.metadata.v
       /\ item.metadata.v[key].t = "String"
    THEN item.metadata.v[key].v ELSE <<>>

ItemLabels(item) ==
    IF item.metadata.t = "Object" /\ <<"l", "a", "b", "e", "l", "s">> \in DOMAIN item.metadata.v
       /\ item.metadata.v[<<"l", "a", "b", "e", "l", "s">>].t = "Object"
    THEN item.metadata.v[<<"l", "a", "b", "e", "l", "s">>].v ELSE EmptyMap

\* the API server's selector semantics: a field requirement compares the
\* object's name or namespace; key=value needs the label with that value,
\* key!=value also selects objects without the label
ServerSelects(item, opts) ==
    /\ \A i \in 1..Len(SelectorTerms(opts.field_selector)) :
            LET term == SelectorTerms(opts.field_selector)[i]
                held == MetadataString(item, SubSeq(term.key, Len(<<"m", "e", "t", "a", "d", "a", "t", "a", ".">>) + 1, Len(term.key)))
            IN  (held = term.value) # term.differs
    /\ \A i \in 1..Len(SelectorTerms(opts.label_selector)) :
            LET term == SelectorTerms(opts.label_selector)[i]
                held == MapGet(ItemLabels(item), term.key)
            IN  IF term.differs
                THEN held = None \/ held[1].t # "String" \/ held[1].v # term.value
                ELSE held # None /\ held[1].t = "String" /\ held[1].v = term.value

\* predicates the parser can produce
RunPredicates ==
    <<Predicate(<<"m", "e", "t", "a", "d", "a", "t", "a", ".", "n", "a", "m", "e">>, "Eq", Json("String", <<"a">>)),
      Predicate(<<"m", "e", "t", "a", "d", "a", "t", "a", ".", "n", "a", "m", "e", "s", "p", "a", "c", "e">>, "Ne", Json("String", <<"n", "s">>)),
      Predicate(<<"m", "e", "t", "a", "d", "a", "t", "a", ".", "l", "a", "b", "e", "l", "s", ".", "a", "p", "p">>, "Eq", Json("String", <<"x">>)),
      Predicate(<<"m", "e", "t", "a", "d", "a", "t", "a", ".", "l", "a", "b", "e", "l", "s", ".", "a", "p", "p">>, "Ne", Json("String", <<"x">>)),
      Predicate(<<"m", "e", "t", "a", "d", "a", "t", "a", ".", "l", "a", "b", "e", "l", "s", ".", "a", ".", "b">>, "Ne", Json("String", <<"y">>)),
      Predicate(<<"M", "e", "t", "a", "d", "a", "t", "a", ".", "N", "a", "m", "e">>, "Eq", Json("String", <<"a">>)),
      Predicate(<<"s", "p", "e", "c", ".", "r", "e", "p", "l", "i", "c", "a", "s">>, "Eq", Json("Number", [k |-> "PosInt", n |-> 1, d |-> 1]))>>

RawObject(metadata, data) == [metadata |-> JsonObject(metadata), data |-> JsonObject(data)]

\* the objects of the resource, in the order the API server lists them
RunObjects ==
    <<RawObject(<<"n", "a", "m", "e">> :> Json("String", <<"a">>) @@ <<"n", "a", "m", "e", "s", "p", "a", "c", "e">> :> Json("String", <<"n", "s">>)
                @@ <<"l", "a", "b", "e", "l", "s">> :> JsonObject(<<"a", "p", "p">> :> Json("String", <<"x">>)),
                EmptyMap),
      RawObject(<<"n", "a", "m", "e">> :> Json("String", <<"b">>) @@ <<"n", "a", "m", "e", "s", "p", "a", "c", "e">> :> Json("String", <<"n", "s">>)
                @@ <<"l", "a", "b", "e", "l", "s">> :> JsonObject(<<"a", "p", "p">> :> Json("String", <<"y">>)),
                <<"m", "e", "t", "a", "d", "a", "t", "a", ".", "n", "a", "m", "e">> :> Json("String", <<"a">>)),
      RawObject(<<"n", "a", "m", "e">> :> Json("String", <<"a">>) @@ <<"n", "a", "m", "e", "s", "p", "a", "c", "e">> :> Json("String", <<"o", "t", "h", "e", "r">>),
                <<"s", "p", "e", "c">> :> JsonObject(<<"r", "e", "p", "l", "i", "c", "a", "s">> :> Json("Number", [k |-> "PosInt", n |-> 1, d |-> 1]))),
      RawObject(<<"n", "a", "m", "e">> :> Json("String", <<"b">>) @@ <<"n", "a", "m", "e", "s", "p", "a", "c", "e">> :> Json("String", <<"o", "t", "h", "e", "r">>)
                @@ <<"l", "a", "b", "e", "l", "s">> :> JsonObject(<<"a", ".", "b">> :> Json("String", <<"x">>)),
                <<"s", "p", "e", "c">> :> JsonObject(<<"r", "e", "p", "l", "i", "c", "a", "s">> :> Json("Number", [k |-> "PosInt", n |-> 1, d |-> 1]))),
      RawObject(<<"n", "a", "m", "e">> :> Json("String", <<"b">>), EmptyMap)>>

\* the objects at the given positions, in order
RECURSIVE Pick(_, _)
Pick(items, chosen) ==
    IF items = <<>> THEN <<>>
    ELSE (IF Len(items) \in chosen THEN Pick(SubSeq(items, 1, Len(items) - 1), chosen) \o <<items[Len(items)]>>
          ELSE Pick(SubSeq(items, 1, Len(items) - 1), chosen))

InitRun ==
    /\ ListerIdle /\ now = 0 /\ CacheIdle /\ PlannerIdle /\ EngineIdle /\ PathIdle /\ CodecIdle
    /\ MaterialIdle /\ ParserIdle
    /\ \E n \in 0..MaxPredicates : \E chosen \in [1..n -> 1..Len(RunPredicates)] :
            ast = Some([i \in 1..n |-> RunPredicates[chosen[i]]])
    /\ \E chosen \in SUBSET (1..Len(RunObjects)) : cluster = Pick(RunObjects, chosen)
    /\ list_result = None
    /\ rows = None

\* k8s::list returns what the API server selected with the pushed selectors
ListHonoured ==
    /\ list_result = None
    /\ LET pushdown_plan == plan_pushdown(ast[1])
       IN  /\ ServerUnderstands(pushdown_plan.options)
           /\ list_result' = Some([objects |-> MapObjects(SelectSeq(cluster,
                                        LAMBDA item : ServerSelects(item, pushdown_plan.options))),
                                   fallback |-> FALSE])
    /\ UNCHANGED <<listerVars, cacheVars, plannerVars, engineVars, pathVars, codecVars,
                   materialVars, parserVars, ast, cluster, rows>>

\* the API server rejected the selectors and list_with_selector_fallback listed
\* again without them
ListFallback ==
    /\ list_result = None
    /\ LET pushdown_plan == plan_pushdown(ast[1])
       IN  \/ pushdown_plan.options.field_selector # None
           \/ pushdown_plan.options.label_selector # None
    /\ list_result' = Some([objects |-> MapObjects(cluster), fallback |-> TRUE])
    /\ UNCHANGED <<listerVars, cacheVars, plannerVars, engineVars, pathVars, codecVars,
                   materialVars, parserVars, ast, cluster, rows>>

\* the rest of run: engine::evaluate over the listed objects
RunEvaluate ==
    /\ list_result # None /\ rows = None
    /\ rows' = Some(evaluate(ast_to_engine_plan(ast[1]), list_result[1].objects))
    /\ UNCHANGED <<listerVars, cacheVars, plannerVars, engineVars, pathVars, codecVars,
                   materialVars, parserVars, ast, cluster, list_result>>

NextRun == ListHonoured \/ ListFallback \/ RunEvaluate

SpecRun == InitRun /\ [][NextRun]_vars

----------------------------------------------------------------------------
(* C30: the rows of a run are the listed objects that satisfy every          *)
(* predicate of the query, pushed down or not; when the API server honoured  *)
(* the selectors, every object of the resource that the client-side filter   *)
(* accepts was listed; so the rows after honoured selectors are the rows a   *)
(* selector fallback, which lists everything, gives.                         *)

C30_Accepts(item) == matches_all(dynamic_to_engine_object(item), ast[1])

C30_RowsOfEverything == SelectSeq(MapObjects(cluster), LAMBDA object : matches_all(object, ast[1]))

C30_SameRowsEitherWay ==
    /\ rows # None =>
            rows[1] = SelectSeq(list_result[1].objects, LAMBDA object : matches_all(object, ast[1]))
    /\ list_result # None /\ ~list_result[1].fallback =>
            \A i \in 1..Len(cluster) :
                C30_Accepts(cluster[i]) =>
                    \E j \in 1..Len(list_result[1].objects) :
                        list_result[1].objects[j] = dynamic_to_engine_object(cluster[i])
    /\ rows # None => rows[1] = C30_RowsOfEverything

====
